---- MODULE Spec2Model ----
(***************************************************************************)
(* A state-machine model of the cocoon agent runtime (src/src/core.rs,     *)
(* src/src/webrtc.rs, src/src/adi_router.rs, src/src/services/tasks.rs).   *)
(*                                                                         *)
(* The agent is one process running many tokio tasks on a multi-threaded   *)
(* runtime (lib.rs: tokio::runtime::Runtime::new()).  Every task step that *)
(* the runtime may schedule independently is an action of its own; a lock  *)
(* that the code holds across several steps is a variable.                 *)
(*                                                                         *)
(* The subsystems share the upstream sink.  Each subsystem has its own     *)
(* specification (SpecPty, SpecWebRtc, ...) that moves that subsystem's    *)
(* variables and leaves the others alone.                                  *)
(***************************************************************************)
EXTENDS Integers, Sequences, FiniteSets, TLC

(***************************************************************************)
(* Bounds of the model.                                                    *)
(***************************************************************************)
\* Chunks the PTY readers read, all sessions together, before the model
\* stops them.
MaxChunks == 2
\* Command requests the dispatch loop handles in the PTY specification.
MaxCmds == 4
\* Peer connections create_session builds before the model stops it.
MaxPc == 2
\* WebRTC frames the dispatch loop reads plus events the WebRTC library
\* reports (state changes, data channels), all together.
MaxRtcInputs == 4
\* Silk requests the dispatch loop handles.
MaxSilkCmds == 4
\* ProxyHttp requests the dispatch loop handles.
MaxProxy == 2
\* Receivers that callers of TasksService::subscribe keep.
MaxReceivers == 2
\* Tasks that take the mutexes of the dispatch loop.
MaxLockTasks == 3
\* Units of output the child of a batch command writes.
MaxWrites == 4
\* Units a pipe holds before a write to it blocks (64 KiB on Linux).
PipeCapacity == 2
\* Characters in a chunk of output given to the ANSI converter.
MaxAnsiLen == 4
\* Entries of a listed directory.
MaxDirEntries == 3
\* Items the walker yields after the root.
MaxWalkItems == 4
\* max_entries of walk_directory, 10 000 in the source: the walk stops at
\* this many entries.
max_entries == 2
\* Batch commands the Silk sessions spawn before the model stops them.
MaxSilkTasks == 2
\* Times the agent process is started.
MaxStarts == 3
\* Subscriptions the router hands out (Uuid::new_v4 is modelled as "the next
\* unused id").
MaxSubs == 2
\* Requests the ADI router handles.
MaxAdiCalls == 4

VARIABLES
    \* ---- shared ----
    sink,          \* frames written to the shared WebSocket sink, in order
    \* ---- PTY manager (core.rs) ----
    ptySessions,   \* pty_sessions: HashMap<Uuid, PtySession>
    ptyLock,       \* holder of the pty_sessions mutex: 0 (free) or the id PtyClose waits for
    nextPty,       \* the next fresh session id
    childState,    \* per PTY id: "none" | "running" | "exited"
    readerState,   \* per PTY id: "none" | "reading" | "done" (the blocking reader task)
    nRead,         \* per PTY id: chunks the reader has read from the master
    ptyTasks,      \* spawned tasks that wait for a lock: PtyOutput sends, AttachPty inserts
    linkUp,        \* run() has not returned
    cmdCount,      \* command requests handled so far
    lastCmd,       \* the last command request handled and what the handler saw
    ptyClosed,     \* ids a PtyClose has removed from the map (history)
    \* ---- WebRTC manager (webrtc.rs) and the WebRTC arms of the loop ----
    rtcSessions,   \* sessions: HashMap<String, WebRtcSession>
    rtcLock,       \* holder of the sessions mutex: 0 (free) or a task's number
    pcState,       \* per peer connection: "none" | "new" | "connected" | ...
    pcSession,     \* per peer connection: the session id its callbacks captured
    rtcCallbacks,  \* peer-connection callbacks the library has invoked, not yet finished
    rtcTasks,      \* tasks the loop spawned: handle_offer and close_session calls
    rtcOut,        \* messages sent on signaling_tx, not yet forwarded to the sink
    rtcLoop,       \* the dispatch loop: idle, or creating a session (pc built, lock awaited)
    rtcFrames,     \* WebRTC frames the loop has read so far
    rtcEvents,     \* peer-connection state changes reported so far
    lastFrame,     \* the frame the loop handled last
    lastClose,     \* the last close_session call that returned (history)
    pcClosed,      \* peer connections whose session a returned close_session removed (history)
    \* ---- identity store and the life of one agent process (core.rs) ----
    secretFile,    \* the .secret file: <<>> (missing) or <<secret>>
    deviceFile,    \* the .device_id file: <<>> (missing) or <<device id>>
    agentPhase,    \* "stopped" | "started" | "running" | "returned"
    secret,        \* the secret get_or_create_secret returned to this process: <<>> or <<secret>>
    deviceArg,     \* the Option<device id> get_or_create_secret returned
    currentDeviceId, \* current_device_id: <<>> (None) or <<device id>>
    regPending,    \* the server has a Register of this connection to answer
    sigTask,       \* the signal handler task: "armed" | "woken" | "deregistered" | "done"
    shutdownMsg,   \* the shutdown broadcast channel holds a message
    exitCause,     \* why the main loop ended: "none" | "signal" | "eof" | "close" | "error"
    nextSecret,    \* the next secret generate_strong_secret draws
    starts,        \* agent starts so far
    setupEnv,      \* COCOON_SETUP_TOKEN and COCOON_NAME of this process
    \* ---- ADI router (adi_router.rs) and the Tasks service (services/tasks.rs) ----
    adiServices,   \* AdiRouter.services: service id -> the registered service
    adiSubs,       \* AdiRouter.subscriptions: subscription id -> [service, event]
    nextSub,       \* the next fresh subscription id
    adiOut,        \* frames the router has handed back to the client
    adiCalls,      \* requests handled so far
    tasksStore,    \* the task store: task id -> status
    nextTask,      \* the id the store gives the next task
    tasksRx,       \* receivers of the Tasks event channel: receiver -> queued events
    tasksEmitted,  \* calls of broadcast_event so far (history)
    adiReq,        \* the request the router handled last (history)
    adiResult,     \* what AdiRouter::handle returned last: <<>> or <<result>>
    adiInvoked,    \* the service handler the last handle call invoked: <<>> or <<service, method, result>>
    adiNotes,      \* calls of broadcast_notification so far (history)
    notifyRx,      \* receivers of notification_tx: receiver -> queued notifications
    adiReturn,     \* what the last unregister returned: <<>> or <<BOOLEAN>>
    \* ---- Silk sessions (silk.rs) and the Silk arms of the dispatch loop (core.rs) ----
    silkSessions,  \* silk_sessions: session id -> [cwd, cmds]; cmds: command id -> RunningCommand
    nextSilk,      \* the next fresh Silk session id
    silkTasks,     \* tasks in flight: interactive executes awaiting their PTY, batch output tasks
    silkCount,     \* Silk requests handled so far
    lastSilk,      \* the Silk request or completion handled last (history)
    \* ---- HTTP proxy (core.rs) ----
    services,      \* the service registry parsed from COCOON_SERVICES: name -> port
    proxyCount,    \* ProxyHttp requests handled so far
    lastProxy,     \* the ProxyHttp request handled last (history)
    upstream,      \* requests sent to local services and how they ended (history)
    \* ---- secrets as text (core.rs) ----
    rngIndices,    \* the indices rng.gen_range yields in this run, repeated in this order
    genChars,      \* the characters generate_strong_secret has collected
    genCheck,      \* what validate_secret finds for the generated secret: "none" before
    \* ---- ANSI to HTML (silk.rs) ----
    ansiInput,     \* the output chunk given to AnsiToHtml::convert, character by character
    ansiOut,       \* what convert returned: [done, spans]
    \* ---- file system requests (filesystem.rs) ----
    dirRead,       \* what read_dir and next_entry yield for the directory of an FsListDir
    dirResponse,   \* the response of list_directory: [type |-> "none"] before the call
    walker,        \* the FsWalk request and what WalkDir yields for it, in order
    walkResponse,  \* the response of walk_directory: [type |-> "none"] before the call
    \* ---- the child of a batch command and its pipes (silk.rs, core.rs) ----
    child,         \* the child process: the writes it still makes, and whether it exited
    outPipe,       \* units of data in the stdout pipe
    errPipe,       \* units of data in the stderr pipe
    stderrBuf,     \* units read_to_end has collected in stderr_buf
    \* ---- callers of TasksService::subscribe that keep the receiver (tasks.rs) ----
    rxSubscribed,  \* receiver -> the event name it was subscribed with, and when (history)
    subscribeResult, \* what the last call of subscribe returned
    \* ---- the three mutexes of the dispatch loop and the tasks that take them (core.rs) ----
    lockHeld,      \* mutex -> the task that holds it, 0 when it is free
    lockTasks,     \* task -> the handler it runs and the lock operation it is at
    lockSpawned    \* tasks spawned so far

ptyVars == <<ptySessions, ptyLock, nextPty, childState, readerState, nRead,
             ptyTasks, linkUp, cmdCount, lastCmd, ptyClosed>>

rtcVars == <<rtcSessions, rtcLock, pcState, pcSession, rtcCallbacks, rtcTasks,
             rtcOut, rtcLoop, rtcFrames, rtcEvents, lastFrame, lastClose, pcClosed>>

agentVars == <<secretFile, deviceFile, agentPhase, secret, deviceArg, currentDeviceId,
               regPending, sigTask, shutdownMsg, exitCause, nextSecret, starts,
               setupEnv>>

adiVars == <<adiServices, adiSubs, nextSub, adiOut, adiCalls, tasksStore, nextTask,
             tasksRx, tasksEmitted, adiReq, adiResult, adiInvoked, adiNotes, notifyRx,
             adiReturn>>

silkVars == <<silkSessions, nextSilk, silkTasks, silkCount, lastSilk>>

proxyVars == <<services, proxyCount, lastProxy, upstream>>

genVars == <<rngIndices, genChars, genCheck>>

\* The variables of the helpers that share no state with the sessions.
ansiVars == <<ansiInput, ansiOut>>

listVars == <<dirRead, dirResponse>>

walkVars == <<walker, walkResponse>>

pipeVars == <<child, outPipe, errPipe, stderrBuf>>

subscriberVars == <<rxSubscribed, subscribeResult>>

lockVars == <<lockHeld, lockTasks, lockSpawned>>

pureVars == <<proxyVars, genVars, ansiVars, listVars, walkVars, pipeVars, subscriberVars,
              lockVars>>

\* What the actions of one part of the program leave alone.
ptyOthers == <<rtcVars, agentVars, adiVars, silkVars, pureVars>>
rtcOthers == <<ptyVars, agentVars, adiVars, silkVars, pureVars>>
agentOthers == <<ptyVars, rtcVars, adiVars, silkVars, pureVars>>
adiOthers == <<sink, ptyVars, rtcVars, agentVars, silkVars, pureVars>>
silkOthers == <<nRead, ptyTasks, linkUp, cmdCount, lastCmd, ptyClosed, rtcVars, agentVars, adiVars,
                pureVars>>
sessionVars == <<ptyVars, rtcVars, agentVars, adiVars, silkVars>>
proxyOthers == <<sessionVars, genVars, ansiVars, listVars, walkVars, pipeVars,
                     subscriberVars, lockVars>>
genOthers == <<sink, sessionVars, proxyVars, ansiVars, listVars, walkVars, pipeVars,
                   subscriberVars, lockVars>>
ansiOthers == <<sink, sessionVars, proxyVars, genVars, listVars, walkVars, pipeVars,
                    subscriberVars, lockVars>>
listOthers == <<sink, sessionVars, proxyVars, genVars, ansiVars, walkVars, pipeVars,
                    subscriberVars, lockVars>>
walkOthers == <<sink, sessionVars, proxyVars, genVars, ansiVars, listVars, pipeVars,
                    subscriberVars, lockVars>>
\* What the tasks that only take and release the mutexes leave alone.
lockOthers == <<sink, sessionVars, proxyVars, genVars, ansiVars, listVars, walkVars, pipeVars,
                subscriberVars>>
\* What handle_subscription and the Tasks handlers leave alone in the router.
routerVars == <<adiResult, adiInvoked, adiNotes, notifyRx, adiReturn>>

\* The PTY session ids create_pty_session hands out (Uuid::new_v4 is modelled
\* as "the next unused id").
PtyIds == {1, 2}

\* The data a PtyInput may carry, and the terminal sizes a resize may ask for.
InputData == {"a"}
PtySizes == {"80x24", "120x40"}
ExitCodes == {0, -1}

(***************************************************************************)
(* Frames on the sink.  Every frame is a record of the same shape.         *)
(***************************************************************************)
Frame(type, sid, data, code) == [type |-> type, sid |-> sid, data |-> data, code |-> code]

\* CommandResponse::PtyOutput{session_id, data}; data is the chunk's number
\* in the byte stream read from the master.
PtyOutputFrame(sid, chunk) == Frame("pty_output", sid, chunk, "")
PtyCreatedFrame(sid) == Frame("pty_created", sid, 0, "")
PtyExitedFrame(sid, exitCode) == Frame("pty_exited", sid, exitCode, "")
ErrorFrame(sid, code) == Frame("error", sid, 0, code)

(***************************************************************************)
(* HashMap helpers.                                                        *)
(***************************************************************************)
MapInsert(m, k, v) == [x \in (DOMAIN m) \cup {k} |-> IF x = k THEN v ELSE m[x]]
MapRemove(m, k) == [x \in (DOMAIN m) \ {k} |-> m[x]]
EmptyMap == [x \in {} |-> 0]

(***************************************************************************)
(* PTY manager: create_pty_session and the PTY arms of the dispatch loop.  *)
(***************************************************************************)
\* struct PtySession: the terminal size of pair.master and what has been
\* written to the writer handle.
NewPtySession(size) == [size |-> size, written |-> <<>>]

\* What the PtyInput arm answers: nothing after a successful write,
\* pty_write_failed when write_all fails, session_not_found when the id is
\* not in the map.
PtyInputResponse_Silent(sessions, sid, wok) ==
    IF sid \in DOMAIN sessions /\ ~wok
    THEN <<ErrorFrame(sid, "pty_write_failed")>>
    ELSE <<>>
PtyInputResponse(sessions, sid, wok) ==
    IF sid \in DOMAIN sessions
    THEN IF wok THEN <<>> ELSE <<ErrorFrame(sid, "pty_write_failed")>>
    ELSE <<ErrorFrame(sid, "session_not_found")>>

\* The map after the PtyInput arm: write_all appends to the session's writer.
PtyInputSessions(sessions, sid, data, wok) ==
    IF sid \in DOMAIN sessions /\ wok
    THEN [sessions EXCEPT ![sid].written = Append(@, data)]
    ELSE sessions

\* What the PtyResize arm answers.
PtyResizeResponse(sessions, sid, rok) ==
    IF sid \in DOMAIN sessions
    THEN IF rok THEN <<>> ELSE <<ErrorFrame(sid, "resize_failed")>>
    ELSE <<ErrorFrame(sid, "session_not_found")>>

\* The map after the PtyResize arm: pair.master.resize.
PtyResizeSessions(sessions, sid, size, rok) ==
    IF sid \in DOMAIN sessions /\ rok
    THEN [sessions EXCEPT ![sid].size = size]
    ELSE sessions

\* A write to (or a resize of) a PTY master can fail only once the slave
\* side is gone, i.e. after the child exited.
IoOutcomes(sid) ==
    IF sid \in PtyIds /\ childState[sid] = "exited" THEN BOOLEAN ELSE {TRUE}

\* Every command request runs in a task of its own (tokio::spawn); the
\* task's record of what it handled.
Handled(type, sid) ==
    /\ cmdCount' = cmdCount + 1
    /\ lastCmd' = [seq |-> cmdCount + 1, type |-> type, sid |-> sid,
                   found |-> sid \in DOMAIN ptySessions]

\* AttachPty, first half: create_pty_session opens the PTY, spawns the
\* child and the blocking reader; on failure the arm answers
\* pty_create_failed.  ok is whether openpty/spawn/clone succeed.
AttachPtyCreate(size, ok) ==
    /\ linkUp
    /\ cmdCount < MaxCmds
    /\ ok => nextPty \in PtyIds
    /\ Handled("attach_pty", 0)
    /\ IF ok
       THEN /\ childState' = [childState EXCEPT ![nextPty] = "running"]
            /\ readerState' = [readerState EXCEPT ![nextPty] = "reading"]
            /\ nextPty' = nextPty + 1
            /\ ptyTasks' = ptyTasks \cup {[kind |-> "insert", sid |-> nextPty,
                                             chunk |-> 0, size |-> size]}
            /\ UNCHANGED sink
       ELSE /\ sink' = Append(sink, ErrorFrame(0, "pty_create_failed"))
            /\ UNCHANGED <<childState, readerState, nextPty, ptyTasks>>
    /\ UNCHANGED <<ptySessions, ptyLock, nRead, linkUp, ptyClosed>>
    /\ UNCHANGED ptyOthers

\* AttachPty, second half: sessions.lock().await.insert(..), then the
\* PtyCreated response.
AttachPtyInsert(t) ==
    /\ linkUp
    /\ t \in ptyTasks
    /\ t.kind = "insert"
    /\ ptyLock = 0
    /\ ptySessions' = MapInsert(ptySessions, t.sid, NewPtySession(t.size))
    /\ sink' = Append(sink, PtyCreatedFrame(t.sid))
    /\ ptyTasks' = ptyTasks \ {t}
    /\ UNCHANGED <<ptyLock, nextPty, childState, readerState, nRead, linkUp,
                   cmdCount, lastCmd, ptyClosed>>
    /\ UNCHANGED ptyOthers

\* AttachPty, second half, its steps one by one.  First
\* sessions.lock().await.insert(session_id, session); the lock is released
\* at the end of the statement and the arm's value is PtyCreated.
AttachPtyInsertSession(t) ==
    /\ linkUp
    /\ t \in ptyTasks
    /\ t.kind = "insert"
    /\ ptyLock = 0
    /\ ptySessions' = MapInsert(ptySessions, t.sid, NewPtySession(t.size))
    /\ ptyTasks' = (ptyTasks \ {t}) \cup {[t EXCEPT !.kind = "respond"]}
    /\ UNCHANGED <<sink, ptyLock, nextPty, childState, readerState, nRead, linkUp,
                   cmdCount, lastCmd, ptyClosed>>
    /\ UNCHANGED ptyOthers

\* Then the request task locks the sink and sends the response.
AttachPtyRespond(t) ==
    /\ linkUp
    /\ t \in ptyTasks
    /\ t.kind = "respond"
    /\ sink' = Append(sink, PtyCreatedFrame(t.sid))
    /\ ptyTasks' = ptyTasks \ {t}
    /\ UNCHANGED <<ptySessions, ptyLock, nextPty, childState, readerState, nRead, linkUp,
                   cmdCount, lastCmd, ptyClosed>>
    /\ UNCHANGED ptyOthers

PtyInput(sid, data, wok) ==
    /\ linkUp
    /\ cmdCount < MaxCmds
    /\ ptyLock = 0
    /\ Handled("pty_input", sid)
    /\ ptySessions' = PtyInputSessions(ptySessions, sid, data, wok)
    /\ sink' = sink \o PtyInputResponse(ptySessions, sid, wok)
    /\ UNCHANGED <<ptyLock, nextPty, childState, readerState, nRead, ptyTasks, linkUp, ptyClosed>>
    /\ UNCHANGED ptyOthers

\* The dispatch loop reads a PtyInput frame and spawns the task that will
\* handle it; the task carries the data and, as seq, the place of the frame
\* among the frames read.
PtyInputSpawn(sid, data) ==
    /\ linkUp
    /\ cmdCount < MaxCmds
    /\ Handled("pty_input", sid)
    /\ ptyTasks' = ptyTasks \cup
          {[data |-> data, kind |-> "input", seq |-> cmdCount + 1, sid |-> sid]}
    /\ UNCHANGED <<sink, ptySessions, ptyLock, nextPty, childState, readerState, nRead,
                   linkUp, ptyClosed>>
    /\ UNCHANGED ptyOthers

\* The task of a PtyInput frame gets the map lock and runs the arm; what it
\* writes is marked with the frame's place.
PtyInputRun(t, wok) ==
    /\ linkUp
    /\ t \in ptyTasks
    /\ t.kind = "input"
    /\ ptyLock = 0
    /\ wok \in IoOutcomes(t.sid)
    /\ ptySessions' = PtyInputSessions(ptySessions, t.sid,
                                       [data |-> t.data, seq |-> t.seq], wok)
    /\ sink' = sink \o PtyInputResponse(ptySessions, t.sid, wok)
    /\ ptyTasks' = ptyTasks \ {t}
    /\ UNCHANGED <<ptyLock, nextPty, childState, readerState, nRead, linkUp, cmdCount,
                   lastCmd, ptyClosed>>
    /\ UNCHANGED ptyOthers

PtyResize(sid, size, rok) ==
    /\ linkUp
    /\ cmdCount < MaxCmds
    /\ ptyLock = 0
    /\ Handled("pty_resize", sid)
    /\ ptySessions' = PtyResizeSessions(ptySessions, sid, size, rok)
    /\ sink' = sink \o PtyResizeResponse(ptySessions, sid, rok)
    /\ UNCHANGED <<ptyLock, nextPty, childState, readerState, nRead, ptyTasks, linkUp, ptyClosed>>
    /\ UNCHANGED ptyOthers

\* PtyClose: sessions.remove under the map lock; for a session that was
\* there the arm then calls child.wait() with the lock still held.
PtyCloseBegin(sid) ==
    /\ linkUp
    /\ cmdCount < MaxCmds
    /\ ptyLock = 0
    /\ Handled("pty_close", sid)
    /\ IF sid \in DOMAIN ptySessions
       THEN /\ ptySessions' = MapRemove(ptySessions, sid)
            /\ ptyLock' = sid
            /\ ptyClosed' = ptyClosed \cup {sid}
            /\ UNCHANGED sink
       ELSE /\ sink' = Append(sink, ErrorFrame(sid, "session_not_found"))
            /\ UNCHANGED <<ptySessions, ptyLock, ptyClosed>>
    /\ UNCHANGED <<nextPty, childState, readerState, nRead, ptyTasks, linkUp>>
    /\ UNCHANGED ptyOthers

\* child.wait() returns once the child has exited; the arm answers
\* PtyExited with the exit code, -1 when it is unavailable.
PtyCloseFinish(exitCode) ==
    /\ linkUp
    /\ ptyLock # 0
    /\ childState[ptyLock] = "exited"
    /\ sink' = Append(sink, PtyExitedFrame(ptyLock, exitCode))
    /\ ptyLock' = 0
    /\ UNCHANGED <<ptySessions, nextPty, childState, readerState, nRead, ptyTasks,
                   linkUp, cmdCount, lastCmd, ptyClosed>>
    /\ UNCHANGED ptyOthers

\* The child process of a PTY session exits (an event of the environment).
ChildExit(sid) ==
    /\ linkUp
    /\ childState[sid] = "running"
    /\ childState' = [childState EXCEPT ![sid] = "exited"]
    /\ UNCHANGED <<sink, ptySessions, ptyLock, nextPty, readerState, nRead, ptyTasks,
                   linkUp, cmdCount, lastCmd, ptyClosed>>
    /\ UNCHANGED ptyOthers

\* Chunks read so far by the readers of sessions 1..n.
RECURSIVE ChunksRead(_)
ChunksRead(n) == IF n = 0 THEN 0 ELSE nRead[n] + ChunksRead(n - 1)

\* The reader task reads one chunk (Ok(n)) and spawns the task that sends
\* it; the reader does not wait for that task.
ReaderRead(sid) ==
    /\ linkUp
    /\ readerState[sid] = "reading"
    /\ ChunksRead(Cardinality(PtyIds)) < MaxChunks
    /\ nRead' = [nRead EXCEPT ![sid] = @ + 1]
    /\ ptyTasks' = ptyTasks \cup {[kind |-> "output", sid |-> sid,
                                     chunk |-> nRead[sid] + 1, size |-> ""]}
    /\ UNCHANGED <<sink, ptySessions, ptyLock, nextPty, childState, readerState,
                   linkUp, cmdCount, lastCmd, ptyClosed>>
    /\ UNCHANGED ptyOthers

\* The reader task ends: Ok(0) (EOF, after the child exited) or a read
\* error.  It touches neither the map nor the sink.
ReaderEnd(sid) ==
    /\ linkUp
    /\ readerState[sid] = "reading"
    /\ childState[sid] = "exited"
    /\ readerState' = [readerState EXCEPT ![sid] = "done"]
    /\ UNCHANGED <<sink, ptySessions, ptyLock, nextPty, childState, nRead, ptyTasks,
                   linkUp, cmdCount, lastCmd, ptyClosed>>
    /\ UNCHANGED ptyOthers

\* One spawned send task runs: writer.lock().await, then send.  The runtime
\* is multi-threaded, so the spawned tasks reach the lock in any order.
SendTaskRun(t) ==
    /\ linkUp
    /\ t \in ptyTasks
    /\ t.kind = "output"
    /\ sink' = Append(sink, PtyOutputFrame(t.sid, t.chunk))
    /\ ptyTasks' = ptyTasks \ {t}
    /\ UNCHANGED <<ptySessions, ptyLock, nextPty, childState, readerState, nRead,
                   linkUp, cmdCount, lastCmd, ptyClosed>>
    /\ UNCHANGED ptyOthers

\* The dispatch loop ends and run() returns: the runtime is dropped, its
\* tasks are cancelled and the session map is dropped with them.
PtyLinkShutdown ==
    /\ linkUp
    /\ linkUp' = FALSE
    /\ ptySessions' = EmptyMap
    /\ ptyTasks' = {}
    /\ ptyLock' = 0
    /\ UNCHANGED <<sink, nextPty, childState, readerState, nRead, cmdCount, lastCmd, ptyClosed>>
    /\ UNCHANGED ptyOthers

(***************************************************************************)
(* WebRTC manager (webrtc.rs) and the WebRTC arms of the dispatch loop.    *)
(***************************************************************************)
\* Session ids the signaling server names in WebRTC frames.
RtcIds == {1, 2}
PcIds == 1..MaxPc
ChannelLabels == {"file"}

WebRtcErrorFrame(sid, code) == Frame("web_rtc_error", sid, 0, code)
WebRtcAnswerFrame(sid) == Frame("web_rtc_answer", sid, 0, "")
\* SignalingMessage::WebRtcSessionEnded{session_id, reason}
WebRtcSessionEndedFrame(sid, reason) == Frame("web_rtc_session_ended", sid, 0, reason)

\* struct WebRtcSession as create_session stores it.
NewRtcSession(pc) == [pc |-> pc, state |-> "pending", channels |-> {}]

\* create_session: self.sessions.lock().await.insert(session_id, session).
CreateInsert_KeepExisting(sessions, sid, pc) ==
    IF sid \in DOMAIN sessions THEN sessions
    ELSE MapInsert(sessions, sid, NewRtcSession(pc))
CreateInsert(sessions, sid, pc) == MapInsert(sessions, sid, NewRtcSession(pc))

\* close_session: self.sessions.lock().await.remove(session_id).
CloseRemove(sessions, sid) == MapRemove(sessions, sid)

\* close_session: what the call returns.  A close that fails or times out
\* is logged; the function ends with Ok(()) on every path.
CloseResult_Propagate(outcome) == IF outcome \in {"err", "timeout"} THEN "err" ELSE "ok"
CloseResult(outcome) == "ok"

\* What a peer-connection callback does to the map once it holds the lock.
\* The callback knows only the session id it captured: Connected sets the
\* state of whatever session is stored under that id, on_data_channel adds
\* the channel to it, Disconnected/Failed/Closed remove it, any other state
\* (New, Connecting) is only logged.
CallbackSessions(sessions, sid, st) ==
    IF st = "connected"
    THEN IF sid \in DOMAIN sessions
         THEN [sessions EXCEPT ![sid].state = "connected"] ELSE sessions
    ELSE IF st \in ChannelLabels
    THEN IF sid \in DOMAIN sessions
         THEN [sessions EXCEPT ![sid].channels = @ \cup {st}] ELSE sessions
    ELSE IF st \in {"disconnected", "failed", "closed"}
    THEN MapRemove(sessions, sid)
    ELSE sessions

\* What a callback sends on signaling_tx before it asks for the lock.
CallbackMessages(sid, st) ==
    IF st \in {"disconnected", "failed", "closed"}
    THEN <<WebRtcSessionEndedFrame(sid, st)>>
    ELSE <<>>

\* The peer connection create_session builds next.
FreshPc == CHOOSE pc \in PcIds : pcState[pc] = "none" /\ \A q \in PcIds : q < pc => pcState[q] # "none"

RtcIdle == rtcLoop.state = "idle"

RtcFrameRead(type, sid, ok) ==
    /\ rtcFrames' = rtcFrames + 1
    /\ lastFrame' = [type |-> type, sid |-> sid, ok |-> ok]

\* WebRtcStartSession, create_session up to the peer connection: built with
\* its handlers installed (ok), or failing with session_create_failed.
LoopStartBegin(sid, ok) ==
    /\ linkUp
    /\ RtcIdle
    /\ rtcFrames + rtcEvents < MaxRtcInputs
    /\ ok => \E pc \in PcIds : pcState[pc] = "none"
    /\ IF ok
       THEN /\ pcState' = [pcState EXCEPT ![FreshPc] = "new"]
            /\ pcSession' = [pcSession EXCEPT ![FreshPc] = sid]
            /\ rtcLoop' = [state |-> "creating", sid |-> sid, pc |-> FreshPc]
            /\ rtcFrames' = rtcFrames + 1
            /\ UNCHANGED <<sink, lastFrame>>
       ELSE /\ sink' = Append(sink, WebRtcErrorFrame(sid, "session_create_failed"))
            /\ RtcFrameRead("web_rtc_start_session", sid, FALSE)
            /\ UNCHANGED <<pcState, pcSession, rtcLoop>>
    /\ UNCHANGED <<rtcSessions, rtcLock, rtcCallbacks, rtcTasks, rtcOut, rtcEvents,
                   lastClose, pcClosed>>
    /\ UNCHANGED rtcOthers

\* create_session, the rest: the session is stored under the map lock and
\* the call returns Ok(()); the loop goes on to the next frame.
LoopStartFinish ==
    /\ linkUp
    /\ rtcLoop.state = "creating"
    /\ rtcLock = 0
    /\ rtcSessions' = CreateInsert(rtcSessions, rtcLoop.sid, rtcLoop.pc)
    /\ rtcLoop' = [state |-> "idle", sid |-> 0, pc |-> 0]
    /\ lastFrame' = [type |-> "web_rtc_start_session", sid |-> rtcLoop.sid, ok |-> TRUE]
    /\ UNCHANGED <<sink, rtcLock, pcState, pcSession, rtcCallbacks, rtcTasks, rtcOut,
                   rtcFrames, rtcEvents, lastClose, pcClosed>>
    /\ UNCHANGED rtcOthers

\* WebRtcOffer: the loop spawns a task that calls handle_offer.
LoopOffer(sid) ==
    /\ linkUp
    /\ RtcIdle
    /\ rtcFrames + rtcEvents < MaxRtcInputs
    /\ RtcFrameRead("web_rtc_offer", sid, TRUE)
    /\ rtcTasks' = rtcTasks \cup
          {[kind |-> "offer", id |-> rtcFrames + 1, sid |-> sid, step |-> "spawned",
            pc |-> 0,
            afterStart |-> lastFrame = [type |-> "web_rtc_start_session",
                                        sid |-> sid, ok |-> TRUE]]}
    /\ UNCHANGED <<sink, rtcSessions, rtcLock, pcState, pcSession, rtcCallbacks, rtcOut,
                   rtcLoop, rtcEvents, lastClose,
                   pcClosed>>
    /\ UNCHANGED rtcOthers

\* WebRtcSessionEnded / WebRtcError: the loop spawns a task that calls
\* close_session.
LoopEnded(type, sid) ==
    /\ linkUp
    /\ RtcIdle
    /\ rtcFrames + rtcEvents < MaxRtcInputs
    /\ RtcFrameRead(type, sid, TRUE)
    /\ rtcTasks' = rtcTasks \cup
          {[kind |-> "close", id |-> rtcFrames + 1, sid |-> sid, step |-> "spawned",
            pc |-> 0, afterStart |-> FALSE]}
    /\ UNCHANGED <<sink, rtcSessions, rtcLock, pcState, pcSession, rtcCallbacks, rtcOut,
                   rtcLoop, rtcEvents, lastClose,
                   pcClosed>>
    /\ UNCHANGED rtcOthers

\* handle_offer takes the map lock and looks the session up; without it the
\* call fails with "Session .. not found" and the task sends offer_failed.
\* With it the lock stays held while the answer is negotiated.
OfferBegin(t) ==
    /\ linkUp
    /\ t \in rtcTasks
    /\ t.kind = "offer"
    /\ t.step = "spawned"
    /\ rtcLock = 0
    /\ IF t.sid \in DOMAIN rtcSessions
       THEN /\ rtcLock' = t.id
            /\ rtcTasks' = (rtcTasks \ {t}) \cup {[t EXCEPT !.step = "negotiating"]}
            /\ UNCHANGED sink
       ELSE /\ sink' = Append(sink, WebRtcErrorFrame(t.sid, "offer_failed"))
            /\ rtcTasks' = rtcTasks \ {t}
            /\ UNCHANGED rtcLock
    /\ UNCHANGED <<rtcSessions, pcState, pcSession, rtcCallbacks, rtcOut, rtcLoop,
                   rtcFrames, rtcEvents, lastFrame, lastClose,
                   pcClosed>>
    /\ UNCHANGED rtcOthers

\* handle_offer returns: the answer, or an error of the SDP exchange.
OfferEnd(t, ok) ==
    /\ linkUp
    /\ t \in rtcTasks
    /\ t.kind = "offer"
    /\ t.step = "negotiating"
    /\ sink' = Append(sink, IF ok THEN WebRtcAnswerFrame(t.sid)
                            ELSE WebRtcErrorFrame(t.sid, "offer_failed"))
    /\ rtcLock' = 0
    /\ rtcTasks' = rtcTasks \ {t}
    /\ UNCHANGED <<rtcSessions, pcState, pcSession, rtcCallbacks, rtcOut, rtcLoop,
                   rtcFrames, rtcEvents, lastFrame, lastClose, pcClosed>>
    /\ UNCHANGED rtcOthers

\* close_session: `if let Some(session) = self.sessions.lock().await.remove(id)`.
\* The guard is a temporary of the if-let scrutinee, so it lives to the end
\* of the if-let: the lock is held while the peer connection is closed.
\* For an id that is not in the map the call returns Ok(()) at once.
CloseBegin(t) ==
    /\ linkUp
    /\ t \in rtcTasks
    /\ t.kind = "close"
    /\ t.step = "spawned"
    /\ rtcLock = 0
    /\ IF t.sid \in DOMAIN rtcSessions
       THEN /\ rtcSessions' = CloseRemove(rtcSessions, t.sid)
            /\ rtcLock' = t.id
            /\ rtcTasks' = (rtcTasks \ {t}) \cup
                  {[t EXCEPT !.step = "closing", !.pc = rtcSessions[t.sid].pc]}
            /\ UNCHANGED <<lastClose, pcClosed>>
       ELSE /\ rtcTasks' = rtcTasks \ {t}
            /\ lastClose' = [sid |-> t.sid, outcome |-> "absent",
                             result |-> CloseResult("absent")]
            /\ UNCHANGED pcClosed
            /\ UNCHANGED <<rtcSessions, rtcLock>>
    /\ UNCHANGED <<sink, pcState, pcSession, rtcCallbacks, rtcOut, rtcLoop, rtcFrames,
                   rtcEvents, lastFrame>>
    /\ UNCHANGED rtcOthers

\* Inside peer_connection.close() the library moves the connection to Closed
\* and awaits the state-change handler: the handler sends WebRtcSessionEnded
\* and then waits for the map lock, which this close_session call holds.
CloseInvokeHandler(t) ==
    /\ linkUp
    /\ t \in rtcTasks
    /\ t.kind = "close"
    /\ t.step = "closing"
    /\ pcState[t.pc] # "closed"
    /\ pcState' = [pcState EXCEPT ![t.pc] = "closed"]
    /\ rtcOut' = rtcOut \o CallbackMessages(pcSession[t.pc], "closed")
    /\ rtcTasks' = (rtcTasks \ {t}) \cup {[t EXCEPT !.step = "blocked"]}
    /\ UNCHANGED <<sink, rtcSessions, rtcLock, pcSession, rtcCallbacks, rtcLoop,
                   rtcFrames, rtcEvents, lastFrame, lastClose, pcClosed>>
    /\ UNCHANGED rtcOthers

\* The ways the timed close can end.  With the handler waiting for the lock
\* the close cannot complete, so only the timeout is left.
CloseOutcomes(t) ==
    IF t.step = "blocked" THEN {"timeout"} ELSE {"ok", "err", "timeout"}

\* tokio::time::timeout(close_timeout, close()) ends: Ok(Ok), Ok(Err) or
\* Err(elapsed), which drops the close future and the handler it awaits.
\* All three are logged at most; the guard is dropped and Ok(()) returned.
CloseEnd(t, outcome) ==
    /\ linkUp
    /\ t \in rtcTasks
    /\ t.kind = "close"
    /\ t.step \in {"closing", "blocked"}
    /\ outcome \in CloseOutcomes(t)
    /\ rtcLock' = 0
    /\ rtcTasks' = rtcTasks \ {t}
    /\ pcState' = IF outcome = "ok" THEN [pcState EXCEPT ![t.pc] = "closed"] ELSE pcState
    /\ lastClose' = [sid |-> t.sid, outcome |-> outcome, result |-> CloseResult(outcome)]
    /\ pcClosed' = pcClosed \cup {t.pc}
    /\ UNCHANGED <<sink, rtcSessions, pcSession, rtcCallbacks, rtcOut, rtcLoop,
                   rtcFrames, rtcEvents, lastFrame>>
    /\ UNCHANGED rtcOthers

\* The library reports a state change of a peer connection, or a data
\* channel the remote peer opened, and invokes the handler create_session
\* installed.  The handler future runs when the runtime polls it.
PcEvent(pc, st) ==
    /\ linkUp
    /\ pcState[pc] \notin {"none", "closed"}
    /\ rtcFrames + rtcEvents < MaxRtcInputs
    /\ st # pcState[pc]
    /\ rtcEvents' = rtcEvents + 1
    /\ pcState' = IF st \in ChannelLabels THEN pcState ELSE [pcState EXCEPT ![pc] = st]
    /\ rtcCallbacks' = rtcCallbacks \cup
          {[id |-> rtcEvents + 1, pc |-> pc, st |-> st, step |-> "invoked"]}
    /\ UNCHANGED <<sink, rtcSessions, rtcLock, pcSession, rtcTasks, rtcOut, rtcLoop,
                   rtcFrames, lastFrame, lastClose,
                   pcClosed>>
    /\ UNCHANGED rtcOthers

\* A callback under the map lock.
CallbackLocked(cb) ==
    /\ rtcSessions' = CallbackSessions(rtcSessions, pcSession[cb.pc], cb.st)
    /\ rtcCallbacks' = rtcCallbacks \ {cb}

\* First poll of a handler future: Disconnected/Failed send
\* WebRtcSessionEnded (tx.send does not wait), then every handler asks for
\* the map lock and, if it is free, finishes in the same poll.
CbPoll(cb) ==
    /\ linkUp
    /\ cb \in rtcCallbacks
    /\ cb.step = "invoked"
    /\ rtcOut' = rtcOut \o CallbackMessages(pcSession[cb.pc], cb.st)
    /\ IF rtcLock = 0
       THEN CallbackLocked(cb)
       ELSE /\ rtcCallbacks' = (rtcCallbacks \ {cb}) \cup {[cb EXCEPT !.step = "waiting"]}
            /\ UNCHANGED <<rtcSessions>>
    /\ UNCHANGED <<sink, rtcLock, pcState, pcSession, rtcTasks, rtcLoop, rtcFrames,
                   rtcEvents, lastFrame, lastClose, pcClosed>>
    /\ UNCHANGED rtcOthers

\* A handler that waited for the map lock gets it.
CbAcquire(cb) ==
    /\ linkUp
    /\ cb \in rtcCallbacks
    /\ cb.step = "waiting"
    /\ rtcLock = 0
    /\ CallbackLocked(cb)
    /\ UNCHANGED <<sink, rtcLock, pcState, pcSession, rtcTasks, rtcOut, rtcLoop,
                   rtcFrames, rtcEvents, lastFrame, lastClose,
                   pcClosed>>
    /\ UNCHANGED rtcOthers

\* The forwarding task of run(): webrtc_rx.recv(), then a send on the sink.
RtcForward ==
    /\ linkUp
    /\ rtcOut # <<>>
    /\ sink' = Append(sink, Head(rtcOut))
    /\ rtcOut' = Tail(rtcOut)
    /\ UNCHANGED <<rtcSessions, rtcLock, pcState, pcSession, rtcCallbacks, rtcTasks,
                   rtcLoop, rtcFrames, rtcEvents, lastFrame, lastClose, pcClosed>>
    /\ UNCHANGED rtcOthers

\* WebRtcManager::session_exists and session_count.
session_exists(sid) == sid \in DOMAIN rtcSessions
session_count == Cardinality(DOMAIN rtcSessions)

InitRtc ==
    /\ rtcSessions = EmptyMap
    /\ rtcLock = 0
    /\ pcState = [pc \in PcIds |-> "none"]
    /\ pcSession = [pc \in PcIds |-> 0]
    /\ rtcCallbacks = {}
    /\ rtcTasks = {}
    /\ rtcOut = <<>>
    /\ rtcLoop = [state |-> "idle", sid |-> 0, pc |-> 0]
    /\ rtcFrames = 0
    /\ rtcEvents = 0
    /\ lastFrame = [type |-> "none", sid |-> 0, ok |-> FALSE]
    /\ lastClose = [sid |-> 0, outcome |-> "none", result |-> "none"]
    /\ pcClosed = {}

\* The states a peer connection reports by itself (Closed it reports inside
\* close()).
PcStates == {"connecting", "connected", "disconnected", "failed"}

\* The manager driven without offers: sessions are created and closed while
\* the peer connections report state changes.
NextRtcManager ==
    \/ \E sid \in RtcIds, ok \in BOOLEAN : LoopStartBegin(sid, ok)
    \/ LoopStartFinish
    \/ \E type \in {"web_rtc_session_ended", "web_rtc_error"}, sid \in RtcIds :
          LoopEnded(type, sid)
    \/ \E t \in rtcTasks : CloseBegin(t)
    \/ \E t \in rtcTasks : CloseInvokeHandler(t)
    \/ \E t \in rtcTasks, outcome \in {"ok", "err", "timeout"} : CloseEnd(t, outcome)
    \/ \E pc \in PcIds, st \in PcStates \cup ChannelLabels : PcEvent(pc, st)
    \/ \E cb \in rtcCallbacks : CbPoll(cb)
    \/ \E cb \in rtcCallbacks : CbAcquire(cb)

NextRtc ==
    \/ \E sid \in RtcIds, ok \in BOOLEAN : LoopStartBegin(sid, ok)
    \/ LoopStartFinish
    \/ \E sid \in RtcIds : LoopOffer(sid)
    \/ \E type \in {"web_rtc_session_ended", "web_rtc_error"}, sid \in RtcIds :
          LoopEnded(type, sid)
    \/ \E t \in rtcTasks : OfferBegin(t)
    \/ \E t \in rtcTasks, ok \in BOOLEAN : OfferEnd(t, ok)
    \/ \E t \in rtcTasks : CloseBegin(t)
    \/ \E t \in rtcTasks : CloseInvokeHandler(t)
    \/ \E t \in rtcTasks, outcome \in {"ok", "err", "timeout"} : CloseEnd(t, outcome)
    \/ \E pc \in PcIds, st \in {"connected", "disconnected", "failed"} \cup ChannelLabels :
          PcEvent(pc, st)
    \/ \E cb \in rtcCallbacks : CbPoll(cb)
    \/ \E cb \in rtcCallbacks : CbAcquire(cb)
    \/ RtcForward


(***************************************************************************)
(* Identity store and the life of one agent process: get_or_create_secret, *)
(* the registration frame, the signal handler and the ways the main loop   *)
(* of run() ends (core.rs).                                                *)
(***************************************************************************)
\* A secret is known by a number; `strong` is what validate_secret finds for
\* its text (the text itself is modelled with validate_secret below).
Secret(id, strong) == [id |-> id, strong |-> strong]
\* What a user may leave in .secret that fails validation.
WeakSecret == Secret(0, FALSE)
\* The value of COCOON_SECRET when it is set.
EnvSecret == Secret(MaxStarts + 1, TRUE)
EnvChoices == {<<>>, <<EnvSecret>>}

\* The device id the signaling server derives from a secret.
DeviceOf(s) == s.id

\* load_device_id: the content of .device_id, None when missing or empty.
load_device_id(dFile) == dFile

\* save_device_id: a failed write is logged and the file stays as it was.
save_device_id(dFile, device, ok) == IF ok THEN <<device>> ELSE dFile

\* get_or_create_secret.  env is COCOON_SECRET (a valid value; an invalid
\* one ends the process), fresh the secret it would generate, ok whether
\* the write of .secret succeeds.  The result holds the pair returned and
\* the two files afterwards.
get_or_create_secret(env, sFile, dFile, fresh, ok) ==
    LET device_id == load_device_id(dFile) IN
    IF env # <<>>
    THEN [secret |-> env[1], device |-> device_id, sFile |-> sFile, dFile |-> dFile,
          generated |-> FALSE]
    ELSE IF sFile # <<>> /\ sFile[1].strong
    THEN [secret |-> sFile[1], device |-> device_id, sFile |-> sFile, dFile |-> dFile,
          generated |-> FALSE]
    ELSE IF sFile # <<>>
    THEN \* invalid: .secret and .device_id are removed, a new secret generated
         [secret |-> fresh, device |-> <<>>,
          sFile |-> IF ok THEN <<fresh>> ELSE <<>>, dFile |-> <<>>, generated |-> TRUE]
    ELSE \* missing: a new secret is generated
         [secret |-> fresh, device |-> <<>>,
          sFile |-> IF ok THEN <<fresh>> ELSE <<>>, dFile |-> dFile, generated |-> TRUE]

\* SignalingMessage::Register{secret, device_id, version}; sid holds the
\* device id, 0 for null.  version is the crate's version in every frame.
RegisterFrame(s, device) ==
    Frame("register", IF device = <<>> THEN 0 ELSE device[1], s.id, "")
\* SignalingMessage::RegisterWithSetupToken{secret, setup_token, name, version}.
RegisterWithSetupTokenFrame(s, token, name) ==
    Frame("register_with_setup_token", 0, s.id, "") @@ [setup_token |-> token, name |-> name]

\* COCOON_SETUP_TOKEN and COCOON_NAME, each unset (<<>>) or set.
SetupEnv(token, name) == [token |-> token, name |-> name]
NoSetup == SetupEnv(<<>>, <<>>)
SetupChoices == {SetupEnv(t, n) : t \in {<<>>, <<"token">>}, n \in {<<>>, <<"name">>}}

\* register_msg, had the setup token been left out of the choice.
RegisterMessage_IgnoreToken(setup, s, device) == RegisterFrame(s, device)

\* register_msg: RegisterWithSetupToken when COCOON_SETUP_TOKEN is set,
\* otherwise Register with the device id get_or_create_secret returned.
RegisterMessage(setup, s, device) ==
    IF setup.token # <<>>
    THEN RegisterWithSetupTokenFrame(s, setup.token[1], setup.name)
    ELSE RegisterFrame(s, device)
DeregisterFrame(device, reason) == Frame("deregister", device, 0, reason)

\* The process starts with its environment: run() calls
\* get_or_create_secret and connects.  A secret generate_strong_secret draws
\* passes validate_secret or, for some draws, does not.
AgentStart(env, setup, ok) ==
    /\ agentPhase = "stopped"
    /\ starts < MaxStarts
    /\ setupEnv' = setup
    /\ \E strong \in BOOLEAN :
       LET r == get_or_create_secret(env, secretFile, deviceFile,
                                     Secret(nextSecret, strong), ok) IN
       /\ secret' = <<r.secret>>
       /\ deviceArg' = r.device
       /\ secretFile' = r.sFile
       /\ deviceFile' = r.dFile
       /\ nextSecret' = IF r.generated THEN nextSecret + 1 ELSE nextSecret
    /\ agentPhase' = "started"
    /\ starts' = starts + 1
    /\ sink' = <<>>
    /\ currentDeviceId' = <<>>
    /\ regPending' = FALSE
    /\ sigTask' = "armed"
    /\ shutdownMsg' = FALSE
    /\ exitCause' = "none"
    /\ UNCHANGED agentOthers

\* The registration frame is the first frame written; a failed send ends
\* the process (exit(1)).
SendRegister(ok) ==
    /\ agentPhase = "started"
    /\ IF ok
       THEN /\ sink' = Append(sink, RegisterMessage(setupEnv, secret[1], deviceArg))
            /\ agentPhase' = "running"
            /\ regPending' = TRUE
       ELSE /\ agentPhase' = "stopped"
            /\ UNCHANGED <<sink, regPending>>
    /\ UNCHANGED <<secretFile, deviceFile, secret, deviceArg, currentDeviceId, sigTask,
                   shutdownMsg, exitCause, nextSecret, starts, setupEnv>>
    /\ UNCHANGED agentOthers

\* Registered / RegisteredWithOwner: the device id is kept for the
\* deregistration and saved for later starts.
RecvRegistered(ok) ==
    /\ agentPhase = "running"
    /\ regPending
    /\ regPending' = FALSE
    /\ currentDeviceId' = <<DeviceOf(secret[1])>>
    /\ deviceFile' = save_device_id(deviceFile, DeviceOf(secret[1]), ok)
    /\ UNCHANGED <<sink, secretFile, agentPhase, secret, deviceArg, sigTask, shutdownMsg,
                   exitCause, nextSecret, starts, setupEnv>>
    /\ UNCHANGED agentOthers

\* SIGTERM or SIGINT arrives: the signal handler task wakes up.
SignalArrives ==
    /\ agentPhase = "running"
    /\ sigTask = "armed"
    /\ sigTask' = "woken"
    /\ UNCHANGED <<sink, secretFile, deviceFile, agentPhase, secret, deviceArg,
                   currentDeviceId, regPending, shutdownMsg, exitCause, nextSecret, starts, setupEnv>>
    /\ UNCHANGED agentOthers

\* The signal handler reads current_device_id and, when it is set, calls
\* send_deregister, whose send may fail (the failure is logged).
SignalDeregister(ok) ==
    /\ agentPhase = "running"
    /\ sigTask = "woken"
    /\ sigTask' = "deregistered"
    /\ sink' = IF currentDeviceId # <<>> /\ ok
               THEN Append(sink, DeregisterFrame(currentDeviceId[1], "shutdown"))
               ELSE sink
    /\ UNCHANGED <<secretFile, deviceFile, agentPhase, secret, deviceArg, currentDeviceId,
                   regPending, shutdownMsg, exitCause, nextSecret, starts, setupEnv>>
    /\ UNCHANGED agentOthers

\* The signal handler sends on the shutdown channel.
SignalNotify ==
    /\ agentPhase = "running"
    /\ sigTask = "deregistered"
    /\ sigTask' = "done"
    /\ shutdownMsg' = TRUE
    /\ UNCHANGED <<sink, secretFile, deviceFile, agentPhase, secret, deviceArg,
                   currentDeviceId, regPending, exitCause, nextSecret, starts, setupEnv>>
    /\ UNCHANGED agentOthers

\* The main loop takes the shutdown message: break, run() returns.
LoopShutdown ==
    /\ agentPhase = "running"
    /\ shutdownMsg
    /\ agentPhase' = "returned"
    /\ exitCause' = "signal"
    /\ UNCHANGED <<sink, secretFile, deviceFile, secret, deviceArg, currentDeviceId,
                   regPending, sigTask, shutdownMsg, nextSecret, starts, setupEnv>>
    /\ UNCHANGED agentOthers

\* read.next() yields None (eof), a Close frame or an error: break, run()
\* returns.
LoopReadEnd(cause) ==
    /\ agentPhase = "running"
    /\ agentPhase' = "returned"
    /\ exitCause' = cause
    /\ UNCHANGED <<sink, secretFile, deviceFile, secret, deviceArg, currentDeviceId,
                   regPending, sigTask, shutdownMsg, nextSecret, starts, setupEnv>>
    /\ UNCHANGED agentOthers

\* The process is gone: it exited after run() returned, or was killed.
AgentStop ==
    /\ agentPhase \in {"started", "running", "returned"}
    /\ agentPhase' = "stopped"
    /\ UNCHANGED <<sink, secretFile, deviceFile, secret, deviceArg, currentDeviceId,
                   regPending, sigTask, shutdownMsg, exitCause, nextSecret, starts, setupEnv>>
    /\ UNCHANGED agentOthers

\* Between two starts the operator resets the secret (removes .secret) or
\* leaves a secret in it that does not pass validation.
SecretFileChanged(content) ==
    /\ agentPhase = "stopped"
    /\ starts < MaxStarts
    /\ secretFile # <<>>
    /\ secretFile # content
    /\ secretFile' = content
    /\ UNCHANGED <<sink, deviceFile, agentPhase, secret, deviceArg, currentDeviceId,
                   regPending, sigTask, shutdownMsg, exitCause, nextSecret, starts, setupEnv>>
    /\ UNCHANGED agentOthers

InitAgent ==
    /\ secretFile = <<>>
    /\ deviceFile = <<>>
    /\ agentPhase = "stopped"
    /\ secret = <<>>
    /\ deviceArg = <<>>
    /\ currentDeviceId = <<>>
    /\ regPending = FALSE
    /\ sigTask = "armed"
    /\ shutdownMsg = FALSE
    /\ exitCause = "none"
    /\ nextSecret = 1
    /\ starts = 0
    /\ setupEnv = NoSetup

NextAgent ==
    \/ \E env \in EnvChoices, ok \in BOOLEAN : AgentStart(env, NoSetup, ok)
    \/ \E ok \in BOOLEAN : SendRegister(ok)
    \/ \E ok \in BOOLEAN : RecvRegistered(ok)
    \/ SignalArrives
    \/ \E ok \in BOOLEAN : SignalDeregister(ok)
    \/ SignalNotify
    \/ LoopShutdown
    \/ \E cause \in {"eof", "close", "error"} : LoopReadEnd(cause)
    \/ AgentStop
    \/ \E content \in {<<>>, <<WeakSecret>>} : SecretFileChanged(content)

\* Starts of the agent with and without a setup token, up to the
\* registration and its answer.
NextAgentRegister ==
    \/ \E env \in EnvChoices, setup \in SetupChoices, ok \in BOOLEAN :
          AgentStart(env, setup, ok)
    \/ \E ok \in BOOLEAN : SendRegister(ok)
    \/ \E ok \in BOOLEAN : RecvRegistered(ok)
    \/ \E cause \in {"eof", "close", "error"} : LoopReadEnd(cause)
    \/ AgentStop
    \/ \E content \in {<<>>, <<WeakSecret>>} : SecretFileChanged(content)


(***************************************************************************)
(* ADI router subscriptions (adi_router.rs) and the events of the Tasks    *)
(* service (services/tasks.rs).                                            *)
(***************************************************************************)
SubIds == 1..MaxSubs
ServiceNames == {"tasks", "tools", "absent"}
EventNames == {"task_created", "task_deleted", "*", "bogus"}

AdiFrame(type, id, service, event, code) ==
    [type |-> type, id |-> id, service |-> service, event |-> event, code |-> code]
AdiSubscribed(id, service, event) == AdiFrame("subscribed", id, service, event, "")
AdiUnsubscribed(id) == AdiFrame("unsubscribed", id, "", "", "")
AdiSubscriptionError(code) == AdiFrame("error", 0, "", "", code)
\* AdiSubscription::Event{subscription_id, event, data}; data names the task.
AdiEvent(id, event, task) == AdiFrame("event", id, "", event, "") @@ [data |-> task]
AdiSuccess(service, task) == AdiFrame("success", task, service, "", "")
AdiError(service, code) == AdiFrame("response_error", 0, service, "", code)

\* The requests the router is handed: AdiSubscription::Subscribe and
\* Unsubscribe, and AdiRequest{service, method, ..}.
AdiReq(type, id, service, method) ==
    [type |-> type, id |-> id, service |-> service, method |-> method]

\* capabilities().subscriptions of the registered services.
SupportsSubscriptions(service) == service = "tasks"

\* TasksService::subscribe accepts these event names.
TasksValidEvents == {"task_created", "task_updated", "task_deleted", "task_status_changed", "*"}

\* event_tx.subscribe(): a new receiver with nothing queued; and its drop.
SubscribeReceiver(rx, r) == MapInsert(rx, r, <<>>)
DropReceiver(rx, r) == MapRemove(rx, r)

\* broadcast_event: event_tx.send queues the event at every live receiver;
\* with no receiver the send fails and the result is ignored.
broadcast_event(rx, ev) == [r \in DOMAIN rx |-> Append(rx[r], ev)]

\* The subscriptions an event of this service and name is meant for.
SubscribersOf(service, event) ==
    {i \in DOMAIN adiSubs : adiSubs[i].service = service /\ adiSubs[i].event \in {event, "*"}}

\* handle_subscription, Subscribe.  The receiver the service returns is bound
\* to `_receiver` and dropped when the arm ends; the router keeps the pair
\* (service, event) under a fresh subscription id.
AdiSubscribe(service, event) ==
    /\ adiCalls < MaxAdiCalls
    /\ adiCalls' = adiCalls + 1
    /\ adiReq' = AdiReq("subscribe", 0, service, event)
    /\ IF service \notin DOMAIN adiServices
       THEN /\ adiOut' = Append(adiOut, AdiSubscriptionError("service_not_found"))
            /\ UNCHANGED <<adiSubs, nextSub, tasksRx>>
       ELSE IF ~SupportsSubscriptions(service)
       THEN /\ adiOut' = Append(adiOut, AdiSubscriptionError("not_supported"))
            /\ UNCHANGED <<adiSubs, nextSub, tasksRx>>
       ELSE IF event \notin TasksValidEvents
       THEN /\ adiOut' = Append(adiOut, AdiSubscriptionError("invalid_params"))
            /\ UNCHANGED <<adiSubs, nextSub, tasksRx>>
       ELSE /\ nextSub \in SubIds
            /\ adiSubs' = MapInsert(adiSubs, nextSub, [service |-> service, event |-> event])
            /\ nextSub' = nextSub + 1
            /\ tasksRx' = DropReceiver(SubscribeReceiver(tasksRx, nextSub), nextSub)
            /\ adiOut' = Append(adiOut, AdiSubscribed(nextSub, service, event))
    /\ UNCHANGED <<adiServices, tasksStore, nextTask, tasksEmitted>>
    /\ UNCHANGED routerVars
    /\ UNCHANGED adiOthers

\* The response of the Unsubscribe arm when the id was not in the map, had
\* the arm reported the miss.
UnsubscribeResponse_ReportMiss(subs, id) ==
    IF id \in DOMAIN subs THEN AdiUnsubscribed(id) ELSE AdiSubscriptionError("not_found")

\* The response of the Unsubscribe arm: subs.remove(&id).is_some() or not,
\* Unsubscribed{subscription_id}.
UnsubscribeResponse(subs, id) ==
    IF id \in DOMAIN subs THEN AdiUnsubscribed(id) ELSE AdiUnsubscribed(id)

\* handle_subscription, Unsubscribe: Unsubscribed whether or not the id was
\* in the map.
AdiUnsubscribe(id) ==
    /\ adiCalls < MaxAdiCalls
    /\ adiCalls' = adiCalls + 1
    /\ adiReq' = AdiReq("unsubscribe", id, "", "")
    /\ adiSubs' = MapRemove(adiSubs, id)
    /\ adiOut' = Append(adiOut, UnsubscribeResponse(adiSubs, id))
    /\ UNCHANGED <<adiServices, nextSub, tasksStore, nextTask, tasksRx, tasksEmitted>>
    /\ UNCHANGED routerVars
    /\ UNCHANGED adiOthers

\* tasks.create through AdiRouter::handle: without a title invalid_params,
\* with a store error internal; otherwise the task is stored with status
\* todo, task_created is broadcast if the task can be read back, and
\* Success{task_id} is returned.
TasksCreate(hasTitle, storeOk, readOk) ==
    /\ adiCalls < MaxAdiCalls
    /\ adiCalls' = adiCalls + 1
    /\ adiReq' = AdiReq("tasks", 0, "tasks", "create")
    /\ "tasks" \in DOMAIN adiServices
    /\ IF ~hasTitle
       THEN /\ adiOut' = Append(adiOut, AdiError("tasks", "invalid_params"))
            /\ UNCHANGED <<tasksStore, nextTask, tasksRx, tasksEmitted>>
       ELSE IF ~storeOk
       THEN /\ adiOut' = Append(adiOut, AdiError("tasks", "internal"))
            /\ UNCHANGED <<tasksStore, nextTask, tasksRx, tasksEmitted>>
       ELSE /\ tasksStore' = MapInsert(tasksStore, nextTask, "todo")
            /\ nextTask' = nextTask + 1
            /\ IF readOk
               THEN /\ tasksRx' = broadcast_event(tasksRx,
                                     [event |-> "task_created", task |-> nextTask])
                    /\ tasksEmitted' = Append(tasksEmitted,
                          [event |-> "task_created", task |-> nextTask,
                           subs |-> SubscribersOf("tasks", "task_created")])
               ELSE UNCHANGED <<tasksRx, tasksEmitted>>
            /\ adiOut' = Append(adiOut, AdiSuccess("tasks", nextTask))
    /\ UNCHANGED <<adiServices, adiSubs, nextSub>>
    /\ UNCHANGED routerVars
    /\ UNCHANGED adiOthers

\* The statuses an update may ask for: none, a TaskStatus, or a string that
\* does not parse.
TaskIds == 1..MaxAdiCalls
TaskStatuses == {"todo", "in_progress"}
StatusParams == {"none", "bogus"} \cup TaskStatuses

\* The status of the task handle_update writes back.
UpdatedStatus(old, param) == IF param = "none" THEN old ELSE param

\* tasks.update: without task_id invalid_params, for an unknown task
\* not_found, for a status that does not parse invalid_params, with a store
\* error internal; otherwise the task is written back, task_updated is
\* broadcast, then task_status_changed if the status differs from the old.
TasksUpdate(hasId, task, param, storeOk) ==
    /\ adiCalls < MaxAdiCalls
    /\ adiCalls' = adiCalls + 1
    /\ adiReq' = AdiReq("tasks", task, "tasks", "update")
    /\ "tasks" \in DOMAIN adiServices
    /\ IF ~hasId \/ param = "bogus" \/ task \notin DOMAIN tasksStore \/ ~storeOk
       THEN /\ adiOut' = Append(adiOut, AdiError("tasks",
                            IF ~hasId THEN "invalid_params"
                            ELSE IF task \notin DOMAIN tasksStore THEN "not_found"
                            ELSE IF param = "bogus" THEN "invalid_params"
                            ELSE "internal"))
            /\ UNCHANGED <<tasksStore, tasksRx, tasksEmitted>>
       ELSE LET old_status == tasksStore[task]
                new_status == UpdatedStatus(old_status, param)
                updated == [event |-> "task_updated", task |-> task]
                changed == [event |-> "task_status_changed", task |-> task,
                            old_status |-> old_status, new_status |-> new_status] IN
            /\ tasksStore' = [tasksStore EXCEPT ![task] = new_status]
            /\ IF old_status # new_status
               THEN /\ tasksRx' = broadcast_event(broadcast_event(tasksRx, updated), changed)
                    /\ tasksEmitted' = tasksEmitted \o
                          <<updated @@ [subs |-> SubscribersOf("tasks", "task_updated")],
                            changed @@ [subs |-> SubscribersOf("tasks", "task_status_changed")]>>
               ELSE /\ tasksRx' = broadcast_event(tasksRx, updated)
                    /\ tasksEmitted' = Append(tasksEmitted,
                          updated @@ [subs |-> SubscribersOf("tasks", "task_updated")])
            /\ adiOut' = Append(adiOut, AdiSuccess("tasks", task))
    /\ UNCHANGED <<adiServices, adiSubs, nextSub, nextTask>>
    /\ UNCHANGED routerVars
    /\ UNCHANGED adiOthers

\* tasks.delete through AdiRouter::handle: without task_id invalid_params,
\* with a store error internal; otherwise the task is gone from the store
\* and task_deleted is broadcast.
TasksDelete(hasId, task, storeOk) ==
    /\ adiCalls < MaxAdiCalls
    /\ adiCalls' = adiCalls + 1
    /\ adiReq' = AdiReq("tasks", task, "tasks", "delete")
    /\ "tasks" \in DOMAIN adiServices
    /\ IF ~hasId
       THEN /\ adiOut' = Append(adiOut, AdiError("tasks", "invalid_params"))
            /\ UNCHANGED <<tasksStore, tasksRx, tasksEmitted>>
       ELSE IF ~storeOk
       THEN /\ adiOut' = Append(adiOut, AdiError("tasks", "internal"))
            /\ UNCHANGED <<tasksStore, tasksRx, tasksEmitted>>
       ELSE /\ tasksStore' = MapRemove(tasksStore, task)
            /\ tasksRx' = broadcast_event(tasksRx, [event |-> "task_deleted", task |-> task])
            /\ tasksEmitted' = Append(tasksEmitted,
                  [event |-> "task_deleted", task |-> task,
                   subs |-> SubscribersOf("tasks", "task_deleted")])
            /\ adiOut' = Append(adiOut, AdiSuccess("tasks", task))
    /\ UNCHANGED <<adiServices, adiSubs, nextSub, nextTask>>
    /\ UNCHANGED routerVars
    /\ UNCHANGED adiOthers

(***************************************************************************)
(* The service registry and request routing of the router.                *)
(***************************************************************************)
\* A service object handed to register: its service_id() and which object it
\* is (two objects may answer the same id).
Service(id, inst) == [id |-> id, inst |-> inst]
ServiceObjects ==
    {Service("tasks", 1), Service("tools", 1), Service("tools", 2), Service("test", 1)}
RegistryIds == {"tools", "test", "absent"}
ReqIds == {1, 2}

\* methods() of the services: the names, in declaration order.
methods(svc) ==
    CASE svc.id = "tasks" -> <<"list", "create", "get", "update", "delete", "search",
                               "ready", "blocked", "stats", "add_dependency",
                               "remove_dependency", "detect_cycles">>
      [] svc.id = "tools" -> <<"list", "call", "get_schema", "providers">>
      [] svc.id = "test" -> <<"echo", "count">>
MethodNames == {"list", "count", "nonexistent"}

\* AdiNotification::ServicesChanged{added, removed, updated}.
ServicesChanged(added, removed, updated) ==
    [added |-> added, removed |-> removed, updated |-> updated]

\* The notification register sends, had it not told a replacement from a
\* first registration.
RegisterNotification_AlwaysAdded(wasNew, id) == ServicesChanged(<<id>>, <<>>, <<>>)

\* The notification register sends: added=[id] when the id was not in the
\* registry, updated=[id] otherwise.
RegisterNotification(wasNew, id) ==
    IF wasNew THEN ServicesChanged(<<id>>, <<>>, <<>>)
    ELSE ServicesChanged(<<>>, <<>>, <<id>>)

\* broadcast_notification: notification_tx.send queues the notification at
\* every live receiver; without a receiver the send fails and is ignored.
broadcast_notification(rx, note) == [r \in DOMAIN rx |-> Append(rx[r], note)]

\* notification_receiver(): a receiver of the notifications sent from now on.
AdiNotificationReceiver ==
    /\ adiCalls < MaxAdiCalls
    /\ adiCalls' = adiCalls + 1
    /\ 1 \notin DOMAIN notifyRx
    /\ notifyRx' = MapInsert(notifyRx, 1, <<>>)
    /\ adiReq' = AdiReq("notification_receiver", 0, "", "")
    /\ UNCHANGED <<adiServices, adiSubs, nextSub, adiOut, tasksStore, nextTask, tasksRx,
                   tasksEmitted, adiResult, adiInvoked, adiNotes, adiReturn>>
    /\ UNCHANGED adiOthers

\* register(service): insert under service_id(), replacing what was there,
\* and broadcast the change.
AdiRegister(svc) ==
    /\ adiCalls < MaxAdiCalls
    /\ adiCalls' = adiCalls + 1
    /\ adiReq' = AdiReq("register", svc.inst, svc.id, "")
    /\ LET was_new == svc.id \notin DOMAIN adiServices
           note == RegisterNotification(was_new, svc.id) IN
       /\ adiServices' = MapInsert(adiServices, svc.id, svc)
       /\ adiNotes' = Append(adiNotes, note)
       /\ notifyRx' = broadcast_notification(notifyRx, note)
    /\ adiReturn' = <<>>
    /\ UNCHANGED <<adiSubs, nextSub, adiOut, tasksStore, nextTask, tasksRx, tasksEmitted,
                   adiResult, adiInvoked>>
    /\ UNCHANGED adiOthers

\* unregister(service_id): remove; when something was removed broadcast
\* removed=[id] and return true, otherwise return false.
AdiUnregister(id) ==
    /\ adiCalls < MaxAdiCalls
    /\ adiCalls' = adiCalls + 1
    /\ adiReq' = AdiReq("unregister", 0, id, "")
    /\ IF id \in DOMAIN adiServices
       THEN LET note == ServicesChanged(<<>>, <<id>>, <<>>) IN
            /\ adiServices' = MapRemove(adiServices, id)
            /\ adiNotes' = Append(adiNotes, note)
            /\ notifyRx' = broadcast_notification(notifyRx, note)
            /\ adiReturn' = <<TRUE>>
       ELSE /\ adiReturn' = <<FALSE>>
            /\ UNCHANGED <<adiServices, adiNotes, notifyRx>>
    /\ UNCHANGED <<adiSubs, nextSub, adiOut, tasksStore, nextTask, tasksRx, tasksEmitted,
                   adiResult, adiInvoked>>
    /\ UNCHANGED adiOthers

\* AdiResponse / AdiRouterResult values of handle.
AdiResponse(type, rid, service, method) ==
    [type |-> type, request_id |-> rid, service |-> service, method |-> method]
ServiceNotFound(rid, service) == AdiResponse("service_not_found", rid, service, "")
MethodNotFound(rid, service, method, available) ==
    AdiResponse("method_not_found", rid, service, method) @@ [available_methods |-> available]
ErrorCodes == {"invalid_params", "internal"}
HandlerResults == {[kind |-> "success", code |-> ""], [kind |-> "stream", code |-> ""]}
                     \cup {[kind |-> "error", code |-> c] : c \in ErrorCodes}

\* methods.iter().any(|m| m.name == request.method), had it looked at the
\* first declared method only.
MethodExists_FirstOnly(ms, method) == ms[1] = method

\* methods.iter().any(|m| m.name == request.method)
MethodExists(ms, method) == \E n \in 1..Len(ms) : ms[n] = method

\* The match on service.handle(..): Success and Stream keep their kind, Err(e)
\* becomes Error{code}; request_id, service and method come from the request.
HandleResult(rid, service, method, res) ==
    IF res.kind = "error"
    THEN AdiResponse("error", rid, service, method) @@ [code |-> res.code]
    ELSE AdiResponse(res.kind, rid, service, method)

\* AdiRouter::handle.
AdiHandle(rid, service, method, res) ==
    /\ adiCalls < MaxAdiCalls
    /\ adiCalls' = adiCalls + 1
    /\ adiReq' = AdiReq("request", rid, service, method)
    /\ IF service \notin DOMAIN adiServices
       THEN /\ adiResult' = <<ServiceNotFound(rid, service)>>
            /\ adiInvoked' = <<>>
       ELSE LET svc == adiServices[service] IN
            IF ~MethodExists(methods(svc), method)
            THEN /\ adiResult' = <<MethodNotFound(rid, service, method, methods(svc))>>
                 /\ adiInvoked' = <<>>
            ELSE /\ adiInvoked' = <<svc, method, res>>
                 /\ adiResult' = <<HandleResult(rid, service, method, res)>>
    /\ UNCHANGED <<adiServices, adiSubs, nextSub, adiOut, tasksStore, nextTask, tasksRx,
                   tasksEmitted, adiNotes, notifyRx, adiReturn>>
    /\ UNCHANGED adiOthers

NextAdiRouter ==
    \/ AdiNotificationReceiver
    \/ \E svc \in ServiceObjects : AdiRegister(svc)
    \/ \E id \in RegistryIds : AdiUnregister(id)
    \/ \E rid \in ReqIds, service \in RegistryIds \cup {"tasks"}, method \in MethodNames :
          \E res \in HandlerResults : AdiHandle(rid, service, method, res)

\* The router after new() and the registration of the Tasks and the Tools
\* service, before anybody asked for a notification receiver.
InitAdi ==
    /\ adiServices = MapInsert(MapInsert(EmptyMap, "tasks", Service("tasks", 1)),
                               "tools", Service("tools", 1))
    /\ adiNotes = <<RegisterNotification(TRUE, "tasks"), RegisterNotification(TRUE, "tools")>>
    /\ notifyRx = EmptyMap
    /\ adiResult = <<>>
    /\ adiInvoked = <<>>
    /\ adiReturn = <<>>
    /\ adiSubs = EmptyMap
    /\ nextSub = 1
    /\ adiOut = <<>>
    /\ adiCalls = 0
    /\ tasksStore = EmptyMap
    /\ nextTask = 1
    /\ tasksRx = EmptyMap
    /\ tasksEmitted = <<>>
    /\ adiReq = AdiReq("none", 0, "", "")

\* The router's registry and its subscription map together.
NextAdiSubscriptions ==
    \/ \E service \in ServiceNames, event \in EventNames : AdiSubscribe(service, event)
    \/ \E id \in SubIds : AdiUnsubscribe(id)
    \/ \E svc \in ServiceObjects : AdiRegister(svc)
    \/ \E id \in ServiceNames : AdiUnregister(id)

NextAdi ==
    \/ \E service \in ServiceNames, event \in EventNames : AdiSubscribe(service, event)
    \/ \E id \in SubIds : AdiUnsubscribe(id)
    \/ \E hasTitle \in BOOLEAN, storeOk \in BOOLEAN : TasksCreate(hasTitle, storeOk, TRUE)
    \/ \E task \in TaskIds : TasksDelete(TRUE, task, task \in DOMAIN tasksStore)

\* The Tasks service on its own: create, update and delete against a store
\* whose calls may fail.
\* A caller of TasksService::subscribe that keeps the receiver, as the
\* service's test does.  The receiver of the n-th such call is MaxSubs + n.
subscriberOthers == <<sink, ptyVars, rtcVars, agentVars, silkVars, proxyVars, genVars,
                      ansiVars, listVars, walkVars, pipeVars, lockVars>>

\* TasksService::subscribe: an event name outside valid_events is
\* invalid_params; otherwise event_tx.subscribe(), a receiver of the
\* service's one channel.
TasksSubscribe(event) ==
    /\ Cardinality(DOMAIN rxSubscribed) < MaxReceivers
    /\ "tasks" \in DOMAIN adiServices
    /\ IF event \notin TasksValidEvents
       THEN /\ subscribeResult' = [event |-> event, receiver |-> 0, result |-> "invalid_params"]
            /\ UNCHANGED <<tasksRx, rxSubscribed>>
       ELSE LET r == MaxSubs + Cardinality(DOMAIN rxSubscribed) + 1 IN
            /\ tasksRx' = SubscribeReceiver(tasksRx, r)
            /\ rxSubscribed' = MapInsert(rxSubscribed, r,
                                         [at |-> Len(tasksEmitted), event |-> event])
            /\ subscribeResult' = [event |-> event, receiver |-> r, result |-> "ok"]
    /\ UNCHANGED <<adiServices, adiSubs, nextSub, adiOut, adiCalls, tasksStore, nextTask,
                   tasksEmitted, adiReq>>
    /\ UNCHANGED routerVars
    /\ UNCHANGED subscriberOthers

InitSubscribers ==
    /\ rxSubscribed = EmptyMap
    /\ subscribeResult = [event |-> "", receiver |-> 0, result |-> "none"]

\* The Tasks service with callers that subscribe to its events.
NextTasksSubscribe ==
    \/ \E event \in EventNames \cup {"task_updated"} : TasksSubscribe(event)
    \/ \E hasTitle \in BOOLEAN : TasksCreate(hasTitle, TRUE, TRUE)
    \/ \E task \in TaskIds, param \in TaskStatuses :
          TasksUpdate(TRUE, task, param, TRUE)
    \/ \E task \in TaskIds : TasksDelete(TRUE, task, TRUE)

NextTasks ==
    \/ \E hasTitle \in BOOLEAN, storeOk \in BOOLEAN, readOk \in BOOLEAN :
          TasksCreate(hasTitle, storeOk, readOk)
    \/ \E hasId \in BOOLEAN, task \in TaskIds, param \in StatusParams, storeOk \in BOOLEAN :
          TasksUpdate(hasId, task, param, storeOk)
    \/ \E hasId \in BOOLEAN, task \in TaskIds, storeOk \in BOOLEAN :
          TasksDelete(hasId, task, storeOk)


(***************************************************************************)
(* Silk sessions (silk.rs) and the Silk arms of the dispatch loop          *)
(* (core.rs).  Every request runs in a task of its own.                    *)
(***************************************************************************)
\* The Silk session ids the model hands out (one session, or two where a
\* specification needs a second one), and the command ids of requests.
SilkIds == {1}
SilkPairIds == {1, 2}
CmdIds == 1..MaxSilkCmds

\* A path: absolute or relative, and its components.
Path(abs, parts) == [abs |-> abs, parts |-> parts]

\* The file system of the machine: its directories and files (absolute,
\* canonical), HOME, and the working directory of the agent process.
Dirs == {<<>>, <<"tmp">>, <<"usr">>, <<"etc">>, <<"root">>}
Files == {<<"etc", "passwd">>}
Home == Path(TRUE, <<"root">>)
ProcessCwd == <<"root">>

\* std::fs::canonicalize: walk the components from the root (a relative
\* path from the process's directory), ".." stepping up; every component
\* must exist, and only the last may be a file.
RECURSIVE Walk(_, _)
Walk(stack, rest) ==
    IF rest = <<>> THEN <<stack>>
    ELSE IF Head(rest) = ".."
    THEN Walk(IF stack = <<>> THEN <<>> ELSE SubSeq(stack, 1, Len(stack) - 1), Tail(rest))
    ELSE LET down == Append(stack, Head(rest)) IN
         IF down \in Dirs \/ (down \in Files /\ Tail(rest) = <<>>)
         THEN Walk(down, Tail(rest))
         ELSE <<>>
canonicalize(p) ==
    LET r == Walk(IF p.abs THEN <<>> ELSE ProcessCwd, p.parts) IN
    IF r = <<>> THEN <<>> ELSE <<Path(TRUE, r[1])>>

\* A command line: the program, and for cd its argument ("~.." , "/.." or
\* relative).
Cmd(prog, target) == [prog |-> prog, target |-> target]
Target(kind, parts) == [kind |-> kind, parts |-> parts]
CdTargets == {Target("abs", <<"usr">>), Target("abs", <<"etc", "passwd">>),
              Target("rel", <<"doesnotexist">>), Target("tilde", <<>>)}
Commands == {Cmd("vim", Target("none", <<>>)), Cmd("ls", Target("none", <<>>))}
               \cup {Cmd("cd", t) : t \in CdTargets}

\* SilkSession::is_interactive_command: the leading token is one of
\* INTERACTIVE_COMMANDS.
is_interactive_command(cmd) == cmd.prog \in {"vim", "top", "ssh"}

\* The path update_cwd_if_cd canonicalizes: ~ replaced by HOME, a path
\* starting with / as it is, any other joined to the session's cwd.
CdPath(cwd, target) ==
    IF target.kind = "tilde" THEN Path(Home.abs, Home.parts \o target.parts)
    ELSE IF target.kind = "abs" THEN Path(TRUE, target.parts)
    ELSE Path(cwd.abs, cwd.parts \o target.parts)

\* SilkSession::update_cwd_if_cd: the session's cwd after the command.
update_cwd_if_cd(cwd, cmd) ==
    IF cmd.prog = "cd" /\ canonicalize(CdPath(cwd, cmd.target)) # <<>>
    THEN canonicalize(CdPath(cwd, cmd.target))[1]
    ELSE cwd

\* Whether the shell can change into the directory: what `cd target` run by
\* `<shell> -c` in the session's cwd exits with; other commands exit with
\* either code.
IsDir(p) == canonicalize(p) # <<>> /\ canonicalize(p)[1].parts \in Dirs
ShellExits(cwd, cmd) ==
    IF cmd.prog = "cd" THEN {IF IsDir(CdPath(cwd, cmd.target)) THEN 0 ELSE 1} ELSE {0, 1}

\* The cwd arguments of SilkCreateSession: none, an absolute directory, a
\* relative path.
CwdArgs == {<<>>, <<Path(TRUE, <<"tmp">>)>>, <<Path(FALSE, <<"work">>)>>}

\* SilkSession::new: the caller's cwd or HOME; no running commands.
NewSilkSession(cwdArg) ==
    [cwd |-> IF cwdArg = <<>> THEN Home ELSE cwdArg[1], cmds |-> EmptyMap]

\* struct RunningCommand as execute inserts it: pty_session_id None (0).
RunningCommand(interactive) == [interactive |-> interactive, pty |-> 0]

\* Silk responses on the sink.
SilkFrame(type, sid, cid, data, code) ==
    [type |-> type, sid |-> sid, cid |-> cid, data |-> data, code |-> code]
SilkError(sid, cid, code) == SilkFrame("silk_error", sid, cid, 0, code)
SessionCreated(sid, cwd) == SilkFrame("session_created", sid, 0, cwd, "")
SessionClosed(sid) == SilkFrame("session_closed", sid, 0, 0, "")
InteractiveRequired(sid, cid, pty) == SilkFrame("interactive_required", sid, cid, pty, "")
CommandStarted(sid, cid) == SilkFrame("command_started", sid, cid, FALSE, "")
SilkOutput(sid, cid, stream, chunk) == SilkFrame("output", sid, cid, chunk, stream)
CommandCompleted(sid, cid, exit, cwd) ==
    SilkFrame("command_completed", sid, cid, exit, "") @@ [cwd |-> cwd]

\* The record of the request (or completion) handled last.
SilkReq(type, sid, cid, arg) == [type |-> type, sid |-> sid, cid |-> cid, arg |-> arg]

\* The SilkCreateSession arm.
SilkCreateSession(cwdArg, shellOk) ==
    /\ silkCount + cmdCount < MaxSilkCmds
    /\ silkCount' = silkCount + 1
    /\ lastSilk' = SilkReq("create", 0, 0, cwdArg)
    /\ IF shellOk
       THEN /\ nextSilk \in SilkPairIds
            /\ silkSessions' = MapInsert(silkSessions, nextSilk, NewSilkSession(cwdArg))
            /\ nextSilk' = nextSilk + 1
            /\ sink' = Append(sink, SessionCreated(nextSilk, NewSilkSession(cwdArg).cwd))
       ELSE /\ sink' = Append(sink, SilkError(0, 0, "session_create_failed"))
            /\ UNCHANGED <<silkSessions, nextSilk>>
    /\ UNCHANGED <<silkTasks, ptySessions, ptyLock, nextPty, childState, readerState>>
    /\ UNCHANGED silkOthers

\* The SilkExecute arm up to its first release of the Silk lock.  The
\* client names the command with a fresh id.  An interactive command is
\* recorded and the arm goes on to create the PTY; a batch command is
\* spawned in the session's cwd (which fails unless that is a directory) and
\* recorded, CommandStarted is written and the output task spawned.  exit is
\* what the child will exit with.
SilkExecute(sid, cmd, spawnOk, exit) ==
    /\ silkCount + cmdCount < MaxSilkCmds
    /\ silkCount' = silkCount + 1
    /\ LET cid == silkCount + 1 IN
       /\ lastSilk' = SilkReq("execute", sid, cid, cmd)
       /\ IF sid \notin DOMAIN silkSessions
          THEN /\ sink' = Append(sink, SilkError(sid, cid, "session_not_found"))
               /\ UNCHANGED <<silkSessions, silkTasks>>
          ELSE IF is_interactive_command(cmd)
          THEN /\ silkSessions' = [silkSessions EXCEPT ![sid].cmds =
                                      MapInsert(@, cid, RunningCommand(TRUE))]
               /\ silkTasks' = silkTasks \cup
                     {[kind |-> "pty", sid |-> sid, cid |-> cid, cmd |-> cmd,
                       stage |-> "create", n |-> 0, exit |-> 0]}
               /\ UNCHANGED sink
          ELSE IF ~(spawnOk /\ IsDir(silkSessions[sid].cwd))
          THEN /\ sink' = Append(sink, SilkError(sid, cid, "execute_failed"))
               /\ UNCHANGED <<silkSessions, silkTasks>>
          ELSE /\ Cardinality({n \in 1..Len(sink) : sink[n].type = "command_started"})
                     < MaxSilkTasks
               /\ exit \in ShellExits(silkSessions[sid].cwd, cmd)
               /\ silkSessions' = [silkSessions EXCEPT ![sid].cmds =
                                      MapInsert(@, cid, RunningCommand(FALSE))]
               /\ sink' = Append(sink, CommandStarted(sid, cid))
               /\ silkTasks' = silkTasks \cup
                     {[kind |-> "output", sid |-> sid, cid |-> cid, cmd |-> cmd,
                       stage |-> "stdout", n |-> 0, exit |-> exit]}
    /\ UNCHANGED <<nextSilk, ptySessions, ptyLock, nextPty, childState, readerState>>
    /\ UNCHANGED silkOthers

\* set_pty_session, had it left the RunningCommand as execute recorded it.
set_pty_session_Skip(session, cid, pty) == session

\* SilkSession::set_pty_session.
set_pty_session(session, cid, pty) ==
    IF cid \in DOMAIN session.cmds
    THEN [session EXCEPT !.cmds[cid].pty = pty]
    ELSE session

\* SilkExecute, interactive branch, after the lock was released:
\* create_pty_session(command, 80, 24), insert into the PTY map,
\* set_pty_session if the Silk session is still there, InteractiveRequired;
\* or pty_create_failed.
SilkExecutePty(t, ok) ==
    /\ t \in silkTasks
    /\ t.kind = "pty"
    /\ silkTasks' = silkTasks \ {t}
    /\ lastSilk' = SilkReq("execute_pty", t.sid, t.cid, ok)
    /\ IF ok
       THEN /\ nextPty \in PtyIds
            /\ ptyLock = 0
            /\ childState' = [childState EXCEPT ![nextPty] = "running"]
            /\ readerState' = [readerState EXCEPT ![nextPty] = "reading"]
            /\ nextPty' = nextPty + 1
            /\ ptySessions' = MapInsert(ptySessions, nextPty, NewPtySession("80x24"))
            /\ silkSessions' =
                  IF t.sid \in DOMAIN silkSessions
                  THEN [silkSessions EXCEPT ![t.sid] = set_pty_session(@, t.cid, nextPty)]
                  ELSE silkSessions
            /\ sink' = Append(sink, InteractiveRequired(t.sid, t.cid, nextPty))
       ELSE /\ sink' = Append(sink, SilkError(t.sid, t.cid, "pty_create_failed"))
            /\ UNCHANGED <<ptySessions, nextPty, childState, readerState, silkSessions>>
    /\ UNCHANGED <<nextSilk, silkCount, ptyLock>>
    /\ UNCHANGED silkOthers

\* The interactive branch of SilkExecute, its steps one by one.  First
\* create_pty_session(command, 80, 24): the PTY, its child and its reader
\* exist from here on; n holds the id of the PTY session.  On failure the
\* arm answers pty_create_failed.
SilkPtyCreate(t, ok) ==
    /\ t \in silkTasks
    /\ t.kind = "pty" /\ t.stage = "create"
    /\ IF ok
       THEN /\ nextPty \in PtyIds
            /\ childState' = [childState EXCEPT ![nextPty] = "running"]
            /\ readerState' = [readerState EXCEPT ![nextPty] = "reading"]
            /\ nextPty' = nextPty + 1
            /\ silkTasks' = (silkTasks \ {t}) \cup
                               {[t EXCEPT !.stage = "insert", !.n = nextPty]}
            /\ UNCHANGED sink
       ELSE /\ sink' = Append(sink, SilkError(t.sid, t.cid, "pty_create_failed"))
            /\ silkTasks' = silkTasks \ {t}
            /\ UNCHANGED <<nextPty, childState, readerState>>
    /\ UNCHANGED <<silkSessions, nextSilk, silkCount, lastSilk, ptySessions, ptyLock>>
    /\ UNCHANGED silkOthers

\* sessions_clone.lock().await.insert(pty_session_id, pty_session).
SilkPtyInsert(t) ==
    /\ t \in silkTasks
    /\ t.kind = "pty" /\ t.stage = "insert"
    /\ ptyLock = 0
    /\ ptySessions' = MapInsert(ptySessions, t.n, NewPtySession("80x24"))
    /\ silkTasks' = (silkTasks \ {t}) \cup {[t EXCEPT !.stage = "record"]}
    /\ UNCHANGED <<sink, silkSessions, nextSilk, silkCount, lastSilk, ptyLock, nextPty,
                   childState, readerState>>
    /\ UNCHANGED silkOthers

\* Under the Silk lock again: set_pty_session if the Silk session is still
\* in the map.
SilkPtyRecord(t) ==
    /\ t \in silkTasks
    /\ t.kind = "pty" /\ t.stage = "record"
    /\ silkSessions' =
          IF t.sid \in DOMAIN silkSessions
          THEN [silkSessions EXCEPT ![t.sid] = set_pty_session(@, t.cid, t.n)]
          ELSE silkSessions
    /\ silkTasks' = (silkTasks \ {t}) \cup {[t EXCEPT !.stage = "respond"]}
    /\ UNCHANGED <<sink, nextSilk, silkCount, lastSilk, ptySessions, ptyLock, nextPty,
                   childState, readerState>>
    /\ UNCHANGED silkOthers

\* The request task locks the sink and sends InteractiveRequired.
SilkPtyRespond(t) ==
    /\ t \in silkTasks
    /\ t.kind = "pty" /\ t.stage = "respond"
    /\ sink' = Append(sink, InteractiveRequired(t.sid, t.cid, t.n))
    /\ silkTasks' = silkTasks \ {t}
    /\ UNCHANGED <<silkSessions, nextSilk, silkCount, lastSilk, ptySessions, ptyLock,
                   nextPty, childState, readerState>>
    /\ UNCHANGED silkOthers

\* Chunks of stdout the output tasks have read so far, all commands together.
SilkChunksRead ==
    Cardinality({n \in 1..Len(sink) : sink[n].type = "output" /\ sink[n].code = "stdout"})

\* The output task reads one chunk of stdout and writes it as Output.
SilkStdoutRead(t) ==
    /\ t \in silkTasks
    /\ t.kind = "output" /\ t.stage = "stdout"
    /\ SilkChunksRead < MaxChunks
    /\ sink' = Append(sink, SilkOutput(t.sid, t.cid, "stdout", t.n + 1))
    /\ silkTasks' = (silkTasks \ {t}) \cup {[t EXCEPT !.n = t.n + 1]}
    /\ UNCHANGED <<silkSessions, nextSilk, silkCount, lastSilk,
                   ptySessions, ptyLock, nextPty, childState, readerState>>
    /\ UNCHANGED silkOthers

\* stdout ends (Ok(0) or an error); the task drains stderr and writes it as
\* one Output if there was any.
SilkStderrDrain(t, hasStderr) ==
    /\ t \in silkTasks
    /\ t.kind = "output" /\ t.stage = "stdout"
    /\ sink' = IF hasStderr THEN Append(sink, SilkOutput(t.sid, t.cid, "stderr", 1)) ELSE sink
    /\ silkTasks' = (silkTasks \ {t}) \cup {[t EXCEPT !.stage = "wait"]}
    /\ UNCHANGED <<silkSessions, nextSilk, silkCount, lastSilk,
                   ptySessions, ptyLock, nextPty, childState, readerState>>
    /\ UNCHANGED silkOthers

\* child.wait(), then under the Silk lock: if the session is still there
\* update_cwd_if_cd, complete_command and CommandCompleted{exit_code, cwd}.
SilkComplete(t) ==
    /\ t \in silkTasks
    /\ t.kind = "output" /\ t.stage = "wait"
    /\ silkTasks' = silkTasks \ {t}
    /\ lastSilk' = SilkReq("completed", t.sid, t.cid, [cmd |-> t.cmd, exit |-> t.exit])
    /\ IF t.sid \in DOMAIN silkSessions
       THEN LET cwd == update_cwd_if_cd(silkSessions[t.sid].cwd, t.cmd) IN
            /\ silkSessions' = [silkSessions EXCEPT
                                   ![t.sid].cwd = cwd,
                                   ![t.sid].cmds = MapRemove(@, t.cid)]
            /\ sink' = Append(sink, CommandCompleted(t.sid, t.cid, t.exit, cwd))
       ELSE UNCHANGED <<silkSessions, sink>>
    /\ UNCHANGED <<nextSilk, silkCount, ptySessions, ptyLock, nextPty, childState, readerState>>
    /\ UNCHANGED silkOthers

\* The PTY session a SilkInput or SilkResize is forwarded to: that of the
\* running command, 0 for none.
SilkPtyOf(sessions, sid, cid) ==
    IF sid \in DOMAIN sessions /\ cid \in DOMAIN sessions[sid].cmds
    THEN sessions[sid].cmds[cid].pty
    ELSE 0

\* What the SilkInput arm answers, had it taken a command without a PTY for
\* one that needs no input.
SilkInputResponse_Silent(sessions, ptys, sid, cid, wok) ==
    IF SilkPtyOf(sessions, sid, cid) \in DOMAIN ptys /\ ~wok
    THEN <<SilkError(sid, cid, "input_failed")>>
    ELSE <<>>

\* What the SilkInput arm answers.
SilkInputResponse(sessions, ptys, sid, cid, wok) ==
    IF sid \notin DOMAIN sessions THEN <<SilkError(sid, cid, "session_not_found")>>
    ELSE IF cid \notin DOMAIN sessions[sid].cmds
    THEN <<SilkError(sid, cid, "command_not_found")>>
    ELSE IF sessions[sid].cmds[cid].pty = 0 THEN <<SilkError(sid, cid, "not_interactive")>>
    ELSE IF sessions[sid].cmds[cid].pty \notin DOMAIN ptys
    THEN <<SilkError(sid, cid, "pty_not_found")>>
    ELSE IF ~wok THEN <<SilkError(sid, cid, "input_failed")>>
    ELSE <<>>

\* The SilkInput arm: look the command's PTY up under the Silk lock, then
\* write_all to its writer under the PTY lock.
SilkInput(sid, cid, data, wok) ==
    /\ silkCount + cmdCount < MaxSilkCmds
    /\ silkCount' = silkCount + 1
    /\ lastSilk' = SilkReq("input", sid, cid, data)
    /\ LET pty == SilkPtyOf(silkSessions, sid, cid) IN
       /\ pty # 0 => ptyLock = 0
       /\ wok \in IoOutcomes(pty)
       /\ ptySessions' = PtyInputSessions(ptySessions, pty, data, wok)
    /\ sink' = sink \o SilkInputResponse(silkSessions, ptySessions, sid, cid, wok)
    /\ UNCHANGED <<silkSessions, nextSilk, silkTasks, ptyLock, nextPty, childState, readerState>>
    /\ UNCHANGED silkOthers

\* What the SilkResize arm answers: resize_failed when the resize of the
\* command's PTY fails, otherwise nothing.
SilkResizeResponse(sessions, ptys, sid, cid, rok) ==
    IF SilkPtyOf(sessions, sid, cid) \in DOMAIN ptys /\ ~rok
    THEN <<SilkError(sid, cid, "resize_failed")>>
    ELSE <<>>

\* The SilkResize arm.
SilkResize(sid, cid, size, rok) ==
    /\ silkCount + cmdCount < MaxSilkCmds
    /\ silkCount' = silkCount + 1
    /\ lastSilk' = SilkReq("resize", sid, cid, size)
    /\ LET pty == SilkPtyOf(silkSessions, sid, cid) IN
       /\ pty # 0 => ptyLock = 0
       /\ rok \in IoOutcomes(pty)
       /\ ptySessions' = PtyResizeSessions(ptySessions, pty, size, rok)
    /\ sink' = sink \o SilkResizeResponse(silkSessions, ptySessions, sid, cid, rok)
    /\ UNCHANGED <<silkSessions, nextSilk, silkTasks, ptyLock, nextPty, childState, readerState>>
    /\ UNCHANGED silkOthers

\* What the SilkCloseSession arm answers, had it not looked at what remove
\* returned.
SilkCloseResponse_AlwaysClosed(sessions, sid) == SessionClosed(sid)

\* What the SilkCloseSession arm answers: SessionClosed when remove found the
\* session, otherwise session_not_found.
SilkCloseResponse(sessions, sid) ==
    IF sid \in DOMAIN sessions
    THEN SessionClosed(sid)
    ELSE SilkError(sid, 0, "session_not_found")

\* The SilkCloseSession arm: silk_sessions.remove(&session_id).
SilkCloseSession(sid) ==
    /\ silkCount + cmdCount < MaxSilkCmds
    /\ silkCount' = silkCount + 1
    /\ lastSilk' = SilkReq("close", sid, 0, 0)
    /\ silkSessions' = MapRemove(silkSessions, sid)
    /\ sink' = Append(sink, SilkCloseResponse(silkSessions, sid))
    /\ UNCHANGED <<nextSilk, silkTasks, ptySessions, ptyLock, nextPty, childState, readerState>>
    /\ UNCHANGED silkOthers

InitSilk ==
    /\ silkSessions = EmptyMap
    /\ nextSilk = 1
    /\ silkTasks = {}
    /\ silkCount = 0
    /\ lastSilk = SilkReq("none", 0, 0, 0)

\* The commands of the two Silk specifications.
SilkCommands == {c \in Commands : c.prog \in {"vim", "ls"}}
BatchCommands == {c \in Commands : ~is_interactive_command(c)}
InteractiveCommands == {c \in Commands : is_interactive_command(c)}

\* Silk with interactive commands: sessions, executes that get a PTY, input
\* and resize, and the PTY sessions closing underneath.
NextSilk ==
    \/ \E shellOk \in BOOLEAN :
          (shellOk => nextSilk \in SilkIds) /\ SilkCreateSession(<<>>, shellOk)
    \/ \E sid \in SilkIds, cmd \in SilkCommands :
          SilkExecute(sid, cmd, TRUE, 0)
    \/ \E t \in silkTasks, ok \in BOOLEAN : SilkExecutePty(t, ok)
    \/ \E sid \in SilkIds, cid \in CmdIds, data \in InputData, wok \in BOOLEAN :
          SilkInput(sid, cid, data, wok)
    \/ \E sid \in SilkIds, cid \in CmdIds, rok \in BOOLEAN :
          SilkResize(sid, cid, "120x40", rok)
    \/ \E sid \in SilkIds : SilkCloseSession(sid)
    \/ \E sid \in PtyIds : ChildExit(sid)
    \/ \E sid \in PtyIds : silkCount + cmdCount < MaxSilkCmds /\ PtyCloseBegin(sid)
    \/ \E exitCode \in ExitCodes : PtyCloseFinish(exitCode)

\* Silk with batch commands: sessions, executes and their output tasks.
NextSilkBatch ==
    \/ \E cwdArg \in CwdArgs, shellOk \in BOOLEAN :
          (shellOk => nextSilk \in SilkIds) /\ SilkCreateSession(cwdArg, shellOk)
    \/ \E sid \in SilkIds, cmd \in BatchCommands, spawnOk \in BOOLEAN, exit \in {0, 1} :
          SilkExecute(sid, cmd, spawnOk, exit)
    \/ \E t \in silkTasks : SilkStdoutRead(t)
    \/ \E t \in silkTasks, hasStderr \in BOOLEAN : SilkStderrDrain(t, hasStderr)
    \/ \E t \in silkTasks : SilkComplete(t)
    \/ \E sid \in SilkIds : SilkCloseSession(sid)

\* Two Silk sessions with interactive commands, closed in any order while
\* the PTY sessions of their commands live on.
NextSilkClose ==
    \/ \E shellOk \in BOOLEAN : SilkCreateSession(<<>>, shellOk)
    \/ \E sid \in SilkPairIds : SilkExecute(sid, Cmd("vim", Target("none", <<>>)), TRUE, 0)
    \/ \E t \in silkTasks, ok \in BOOLEAN : SilkExecutePty(t, ok)
    \/ \E sid \in SilkPairIds, cid \in CmdIds, data \in InputData, wok \in BOOLEAN :
          SilkInput(sid, cid, data, wok)
    \/ \E sid \in SilkPairIds : SilkCloseSession(sid)
    \/ \E sid \in PtyIds : ChildExit(sid)

(***************************************************************************)
(* HTTP proxy: handle_proxy_request and the ProxyHttp arm (core.rs).       *)
(***************************************************************************)
\* Requests the model lets the proxy handle.
\* Strings the code inspects character by character are sequences of
\* one-character strings.
LowerToUpper ==
    [c \in {"a", "b", "c", "d", "e", "f", "g", "h", "i", "j", "k", "l", "m", "n", "o",
            "p", "q", "r", "s", "t", "u", "v", "w", "x", "y", "z"} |->
       CASE c = "a" -> "A" [] c = "b" -> "B" [] c = "c" -> "C" [] c = "d" -> "D"
         [] c = "e" -> "E" [] c = "f" -> "F" [] c = "g" -> "G" [] c = "h" -> "H"
         [] c = "i" -> "I" [] c = "j" -> "J" [] c = "k" -> "K" [] c = "l" -> "L"
         [] c = "m" -> "M" [] c = "n" -> "N" [] c = "o" -> "O" [] c = "p" -> "P"
         [] c = "q" -> "Q" [] c = "r" -> "R" [] c = "s" -> "S" [] c = "t" -> "T"
         [] c = "u" -> "U" [] c = "v" -> "V" [] c = "w" -> "W" [] c = "x" -> "X"
         [] c = "y" -> "Y" [] c = "z" -> "Z"]

\* str::to_uppercase.
to_uppercase(str) ==
    [i \in 1..Len(str) |-> IF str[i] \in DOMAIN LowerToUpper THEN LowerToUpper[str[i]]
                            ELSE str[i]]

\* The methods the proxy forwards.
HttpMethods ==
    {<<"G", "E", "T">>, <<"P", "O", "S", "T">>, <<"P", "U", "T">>,
     <<"D", "E", "L", "E", "T", "E">>, <<"P", "A", "T", "C", "H">>,
     <<"H", "E", "A", "D">>, <<"O", "P", "T", "I", "O", "N", "S">>}

\* The registries COCOON_SERVICES may give: none, or one service.
NoServices == EmptyMap
ServiceRegistries == {NoServices, [n \in {"api"} |-> 8092]}

\* The method spellings, service names and request ids of the requests.
MethodSpellings ==
    {<<"G", "E", "T">>, <<"g", "e", "t">>, <<"P", "o", "s", "t">>, <<"p", "u", "t">>,
     <<"d", "e", "l", "e", "t", "e">>, <<"P", "A", "T", "C", "H">>, <<"h", "e", "a", "d">>,
     <<"O", "p", "t", "i", "o", "n", "s">>, <<"C", "O", "N", "N", "E", "C", "T">>,
     <<"t", "r", "a", "c", "e">>, <<"G", "E", "T", "S">>, <<>>}
ProxyNames == {"api", "absent"}
RequestIds == {"r1", "r2"}

\* How the request to the local service ends: a response with its status,
\* or no response (connection refused, timeout, a request that cannot be built).
Upstream(responded, status) == [responded |-> responded, status |-> status]
UpstreamOutcomes == {Upstream(TRUE, 200), Upstream(TRUE, 404), Upstream(TRUE, 500),
                     Upstream(FALSE, 0)}

\* CommandRequest::ProxyHttp and CommandResponse::ProxyResult; a body built
\* with format! is the pair of its text and its argument.
ProxyHttpReq(request_id, service_name, method) ==
    [method |-> method, request_id |-> request_id, service_name |-> service_name]
ProxyResult(request_id, status_code, body) ==
    [body |-> body, request_id |-> request_id, status_code |-> status_code,
     type |-> "proxy_result"]

\* handle_proxy_request, had it parsed the method before looking the service
\* up.
handle_proxy_request_MethodFirst(req, registry, outcome) ==
    IF to_uppercase(req.method) \notin HttpMethods
    THEN ProxyResult(req.request_id, 405, <<"Unsupported method: ", req.method>>)
    ELSE IF req.service_name \notin DOMAIN registry
    THEN ProxyResult(req.request_id, 404, <<"Service not found: ", req.service_name>>)
    ELSE IF ~outcome.responded
    THEN ProxyResult(req.request_id, 502, <<"Proxy error: ", "e">>)
    ELSE ProxyResult(req.request_id, outcome.status, <<"response", "text">>)

\* handle_proxy_request: the result for a request, given how the upstream
\* request ends if one is made.
handle_proxy_request(req, registry, outcome) ==
    IF req.service_name \notin DOMAIN registry
    THEN ProxyResult(req.request_id, 404, <<"Service not found: ", req.service_name>>)
    ELSE IF to_uppercase(req.method) \notin HttpMethods
    THEN ProxyResult(req.request_id, 405, <<"Unsupported method: ", req.method>>)
    ELSE IF ~outcome.responded
    THEN ProxyResult(req.request_id, 502, <<"Proxy error: ", "e">>)
    ELSE ProxyResult(req.request_id, outcome.status, <<"response", "text">>)

\* handle_proxy_request reaches send(): the request it makes.
UpstreamRequest(req, registry, outcome) ==
    IF req.service_name \in DOMAIN registry /\ to_uppercase(req.method) \in HttpMethods
    THEN <<[method |-> to_uppercase(req.method), outcome |-> outcome,
            port |-> registry[req.service_name]]>>
    ELSE <<>>

\* The ProxyHttp arm: handle_proxy_request, then the result is written to
\* the sink.
ProxyHttp(req, outcome) ==
    /\ proxyCount < MaxProxy
    /\ proxyCount' = proxyCount + 1
    /\ lastProxy' = req
    /\ upstream' = upstream \o UpstreamRequest(req, services, outcome)
    /\ sink' = Append(sink, handle_proxy_request(req, services, outcome))
    /\ UNCHANGED services
    /\ UNCHANGED proxyOthers

InitProxy(registry) ==
    /\ services = registry
    /\ proxyCount = 0
    /\ lastProxy = ProxyHttpReq("", "", <<>>)
    /\ upstream = <<>>

NextProxy ==
    \E id \in RequestIds, name \in ProxyNames, method \in MethodSpellings,
       outcome \in UpstreamOutcomes :
          ProxyHttp(ProxyHttpReq(id, name, method), outcome)

(***************************************************************************)
(* Secrets as text: generate_strong_secret and validate_secret (core.rs).  *)
(***************************************************************************)
MIN_SECRET_LENGTH == 32
GENERATED_SECRET_LENGTH == 48

\* CHARSET of generate_strong_secret; CHARSET[idx] of the code is
\* CHARSET[idx + 1] here.
CHARSET ==
    <<"A", "B", "C", "D", "E", "F", "G", "H", "I", "J", "K", "L", "M", "N", "O", "P",
      "Q", "R", "S", "T", "U", "V", "W", "X", "Y", "Z",
      "a", "b", "c", "d", "e", "f", "g", "h", "i", "j", "k", "l", "m", "n", "o", "p",
      "q", "r", "s", "t", "u", "v", "w", "x", "y", "z",
      "0", "1", "2", "3", "4", "5", "6", "7", "8", "9", "-", "_">>

\* The index streams the model lets the random generator yield: each is
\* repeated until the secret is complete.
RngStreams ==
    {<<0>>, <<52, 53>>, <<26, 27, 28>>, <<45, 30, 44, 45, 0, 55, 63>>,
     <<19, 30, 18, 45, 62>>, <<53, 54, 55, 56, 57, 0>>, <<0, 27, 54, 63, 10, 33>>,
     <<61, 62, 25, 51>>}

\* char::is_numeric, char::is_alphabetic and str::to_lowercase on the
\* characters of CHARSET.
is_numeric(c) == c \in {"0", "1", "2", "3", "4", "5", "6", "7", "8", "9"}
is_alphabetic(c) == c \in DOMAIN LowerToUpper \/ \E l \in DOMAIN LowerToUpper : LowerToUpper[l] = c
to_lowercase(str) ==
    [i \in 1..Len(str) |->
       IF \E l \in DOMAIN LowerToUpper : LowerToUpper[l] = str[i]
       THEN CHOOSE l \in DOMAIN LowerToUpper : LowerToUpper[l] = str[i]
       ELSE str[i]]

\* str::contains.
Contains(str, pattern) ==
    \E i \in 1..(Len(str) - Len(pattern) + 1) :
       SubSeq(str, i, i + Len(pattern) - 1) = pattern

\* weak_patterns of validate_secret.
WeakPatterns ==
    {<<"p", "a", "s", "s", "w", "o", "r", "d">>, <<"s", "e", "c", "r", "e", "t">>,
     <<"a", "d", "m", "i", "n">>, <<"1", "2", "3", "4", "5">>,
     <<"q", "w", "e", "r", "t", "y">>, <<"t", "e", "s", "t">>}

\* validate_secret: "ok" for Ok(()), otherwise which check failed.
validate_secret(text) ==
    IF Len(text) < MIN_SECRET_LENGTH THEN "too_short"
    ELSE IF \A i \in 1..Len(text) : is_numeric(text[i]) THEN "only_numbers"
    ELSE IF to_lowercase(text) = text
            /\ \A i \in 1..Len(text) : is_alphabetic(text[i])
    THEN "only_lowercase"
    ELSE IF \A i \in 1..Len(text) : text[i] = text[1] THEN "repetitive"
    ELSE IF \E pattern \in WeakPatterns : Contains(to_lowercase(text), pattern)
    THEN "weak_pattern"
    ELSE "ok"

\* generate_strong_secret draws one index and maps it to its character.
GenerateDraw ==
    /\ Len(genChars) < GENERATED_SECRET_LENGTH
    /\ LET idx == rngIndices[(Len(genChars) % Len(rngIndices)) + 1] IN
       genChars' = Append(genChars, CHARSET[idx + 1])
    /\ UNCHANGED <<rngIndices, genCheck>>
    /\ UNCHANGED genOthers

\* generate_strong_secret has returned; the secret is validated (as the next
\* start does with the secret it reads from .secret).
ValidateGenerated ==
    /\ Len(genChars) = GENERATED_SECRET_LENGTH
    /\ genCheck = "none"
    /\ genCheck' = validate_secret(genChars)
    /\ UNCHANGED <<rngIndices, genChars>>
    /\ UNCHANGED genOthers

InitGen(indices) ==
    /\ rngIndices = indices
    /\ genChars = <<>>
    /\ genCheck = "none"

NextSecret ==
    \/ GenerateDraw
    \/ ValidateGenerated

(***************************************************************************)
(* AnsiToHtml (silk.rs).  A chunk of output is a sequence of characters;   *)
(* ESC stands for the character 0x1b.                                      *)
(***************************************************************************)
ESC == "ESC"
AnsiChars == {ESC, "[", "0", "1", "3", ";", "m", "J", "a"}
AnsiInputs == UNION {[1..n -> AnsiChars] : n \in 0..MaxAnsiLen}

\* SilkHtmlSpan.
SilkHtmlSpan(text, classes, styles) ==
    [classes |-> classes, styles |-> styles, text |-> text]

\* char::is_ascii_digit and the value of a digit.
Digits == <<"0", "1", "2", "3", "4", "5", "6", "7", "8", "9">>
is_ascii_digit(c) == \E i \in 1..Len(Digits) : Digits[i] = c
DigitValue(c) == (CHOOSE i \in 1..Len(Digits) : Digits[i] = c) - 1

\* The palettes of parse_sgr: codes 30-37 and 40-47, and codes 90-97.
SgrPalette == <<"#000000", "#cc0000", "#00cc00", "#cccc00", "#0000cc", "#cc00cc",
                "#00cccc", "#cccccc">>
SgrBrightPalette == <<"#555555", "#ff5555", "#55ff55", "#ffff55", "#5555ff", "#ff55ff",
                      "#55ffff", "#ffffff">>

\* str::split(';'): the parts between the separators, empty parts included.
RECURSIVE Split(_)
Split(str) ==
    IF \A i \in 1..Len(str) : str[i] # ";" THEN <<str>>
    ELSE LET k == CHOOSE i \in 1..Len(str) :
                     str[i] = ";" /\ \A j \in 1..(i - 1) : str[j] # ";"
         IN <<SubSeq(str, 1, k - 1)>> \o Split(SubSeq(str, k + 1, Len(str)))

\* One arm of the match in parse_sgr: what one part does to the styles and
\* the classes.
SgrPart(part, sgr) ==
    IF part \in {<<"1">>, <<"2">>, <<"3">>, <<"4">>, <<"7">>, <<"9">>}
    THEN [sgr EXCEPT !.classes =
            Append(@, CASE part = <<"1">> -> "bold"
                        [] part = <<"2">> -> "dim"
                        [] part = <<"3">> -> "italic"
                        [] part = <<"4">> -> "underline"
                        [] part = <<"7">> -> "inverse"
                        [] part = <<"9">> -> "strikethrough")]
    ELSE IF Len(part) = 2 /\ part[2] \in {"0", "1", "2", "3", "4", "5", "6", "7"}
            /\ part[1] \in {"3", "4", "9"}
    THEN [sgr EXCEPT !.styles =
            CASE part[1] = "3" -> MapInsert(@, "color", SgrPalette[DigitValue(part[2]) + 1])
              [] part[1] = "9" ->
                     MapInsert(@, "color", SgrBrightPalette[DigitValue(part[2]) + 1])
              [] part[1] = "4" ->
                     MapInsert(@, "background-color", SgrPalette[DigitValue(part[2]) + 1])]
    ELSE sgr

RECURSIVE SgrParts(_, _, _)
SgrParts(parts, i, sgr) ==
    IF i > Len(parts) THEN sgr ELSE SgrParts(parts, i + 1, SgrPart(parts[i], sgr))

\* parse_sgr: the styles and classes after the code.
parse_sgr(code, styles, classes) ==
    IF code = <<>> \/ code = <<"0">>
    THEN [classes |-> <<>>, styles |-> EmptyMap]
    ELSE SgrParts(Split(code), 1, [classes |-> classes, styles |-> styles])

\* The while loop that collects the code: the index of the first character
\* from i on that is neither a digit nor ';' (Len + 1 when there is none).
RECURSIVE CodeEnd(_, _)
CodeEnd(input, i) ==
    IF i <= Len(input) /\ (is_ascii_digit(input[i]) \/ input[i] = ";")
    THEN CodeEnd(input, i + 1)
    ELSE i

\* The flush of current_text into a span.
Flush(spans, text, sgr) ==
    IF text # <<>> THEN Append(spans, SilkHtmlSpan(text, sgr.classes, sgr.styles))
    ELSE spans

\* The loop of convert from character i on.
RECURSIVE ConvertFrom(_, _, _, _, _)
ConvertFrom(input, i, spans, text, sgr) ==
    IF i > Len(input) THEN Flush(spans, text, sgr)
    ELSE IF input[i] = ESC
    THEN LET flushed == Flush(spans, text, sgr) IN
         IF i + 1 <= Len(input) /\ input[i + 1] = "["
         THEN LET j == CodeEnd(input, i + 2)
                  code == SubSeq(input, i + 2, j - 1)
              IN IF j > Len(input) THEN ConvertFrom(input, j, flushed, <<>>, sgr)
                 ELSE IF input[j] = "m"
                 THEN ConvertFrom(input, j + 1, flushed, <<>>,
                                  parse_sgr(code, sgr.styles, sgr.classes))
                 ELSE ConvertFrom(input, j + 1, flushed, <<>>, sgr)
         ELSE ConvertFrom(input, i + 1, flushed, <<>>, sgr)
    ELSE ConvertFrom(input, i + 1, spans, Append(text, input[i]), sgr)

\* AnsiToHtml::convert.
convert(input) ==
    ConvertFrom(input, 1, <<>>, <<>>, [classes |-> <<>>, styles |-> EmptyMap])

\* A chunk of output is converted.
AnsiToHtmlConvert ==
    /\ ~ansiOut.done
    /\ ansiOut' = [done |-> TRUE, spans |-> convert(ansiInput)]
    /\ UNCHANGED ansiInput
    /\ UNCHANGED ansiOthers

InitAnsi(input) ==
    /\ ansiInput = input
    /\ ansiOut = [done |-> FALSE, spans |-> <<>>]

NextAnsi ==
    \/ AnsiToHtmlConvert

(***************************************************************************)
(* list_directory (filesystem.rs).                                         *)
(***************************************************************************)
\* The bytes of the characters the file names are made of.
CharCode == [c \in {".", "A", "B", "_", "a", "b"} |->
               CASE c = "." -> 46 [] c = "A" -> 65 [] c = "B" -> 66
                 [] c = "_" -> 95 [] c = "a" -> 97 [] c = "b" -> 98]

\* Ord::cmp on strings: the first differing byte decides, then the length.
RECURSIVE StrCmp(_, _)
StrCmp(a, b) ==
    IF a = <<>> /\ b = <<>> THEN "Equal"
    ELSE IF a = <<>> THEN "Less"
    ELSE IF b = <<>> THEN "Greater"
    ELSE IF CharCode[Head(a)] < CharCode[Head(b)] THEN "Less"
    ELSE IF CharCode[Head(a)] > CharCode[Head(b)] THEN "Greater"
    ELSE StrCmp(Tail(a), Tail(b))

\* What next_entry and metadata yield for one entry: its name and
\* "dir", "file", "symlink", or "err" when metadata fails.
DirEntry(name, meta) == [meta |-> meta, name |-> name]
DirNames == {<<"a">>, <<"A">>, <<"B">>, <<"_">>, <<"a", "b">>, <<".", "a">>}
DirMetas == {"dir", "file", "symlink", "err"}

\* read_dir: it fails, or the entries come until None or an error ends them.
ReadDir(ok, entries) == [entries |-> entries, ok |-> ok]
ReadDirs ==
    {ReadDir(ok, entries) :
       ok \in BOOLEAN,
       entries \in {e \in UNION {[1..n -> {DirEntry(name, meta) : name \in DirNames,
                                                                  meta \in DirMetas}] :
                                   n \in 0..MaxDirEntries} :
                      \A i, j \in 1..Len(e) : e[i].name = e[j].name => i = j}}

\* FileEntry as list_directory builds it.
FileEntry(entry) ==
    [is_dir |-> entry.meta = "dir",
     is_file |-> entry.meta \in {"file", "err"},
     is_symlink |-> entry.meta = "symlink",
     name |-> entry.name]

\* The comparator of the sort with the names as they are.
EntryCmp_RawNames(a, b) ==
    IF a.is_dir /\ ~b.is_dir THEN "Less"
    ELSE IF ~a.is_dir /\ b.is_dir THEN "Greater"
    ELSE StrCmp(a.name, b.name)

\* The comparator of the sort.
EntryCmp(a, b) ==
    IF a.is_dir /\ ~b.is_dir THEN "Less"
    ELSE IF ~a.is_dir /\ b.is_dir THEN "Greater"
    ELSE StrCmp(to_lowercase(a.name), to_lowercase(b.name))

\* slice::sort_by is stable: an entry goes behind the entries that do not
\* compare greater.
SortInsert(sorted, e) ==
    LET k == Cardinality({i \in 1..Len(sorted) :
                            \A j \in 1..i : EntryCmp(sorted[j], e) # "Greater"})
    IN SubSeq(sorted, 1, k) \o <<e>> \o SubSeq(sorted, k + 1, Len(sorted))

RECURSIVE SortBy(_, _, _)
SortBy(entries, i, sorted) ==
    IF i > Len(entries) THEN sorted
    ELSE SortBy(entries, i + 1, SortInsert(sorted, entries[i]))

\* FileSystemResponse of list_directory.
NoFsResponse == [entries |-> <<>>, type |-> "none"]
FsError == [entries |-> <<>>, type |-> "FsError"]
FsDirListing(entries) == [entries |-> entries, type |-> "FsDirListing"]

list_directory(read) ==
    IF read.ok
    THEN FsDirListing(SortBy([i \in 1..Len(read.entries) |-> FileEntry(read.entries[i])],
                             1, <<>>))
    ELSE FsError

\* An FsListDir request is handled.
FsListDir ==
    /\ dirResponse = NoFsResponse
    /\ dirResponse' = list_directory(dirRead)
    /\ UNCHANGED dirRead
    /\ UNCHANGED listOthers

InitList(read) ==
    /\ dirRead = read
    /\ dirResponse = NoFsResponse

NextList ==
    \/ FsListDir

(***************************************************************************)
(* walk_directory (filesystem.rs).                                         *)
(***************************************************************************)
\* What the walker yields after filter_entry: an error, the root, or an
\* entry with what the glob pattern says of its name.
WalkItem(ok, root, matches, is_dir) ==
    [is_dir |-> is_dir, matches |-> matches, ok |-> ok, root |-> root]
WalkRoot == WalkItem(TRUE, TRUE, FALSE, TRUE)
WalkError == WalkItem(FALSE, FALSE, FALSE, FALSE)
WalkItems == {WalkError, WalkItem(TRUE, FALSE, TRUE, TRUE), WalkItem(TRUE, FALSE, TRUE, FALSE),
              WalkItem(TRUE, FALSE, FALSE, FALSE)}

\* The FsWalk request and its walker: whether glob::Pattern::new gave a
\* pattern, and the items in the order the walker yields them.
Walker(glob_pattern, items) == [glob_pattern |-> glob_pattern, items |-> items]
Walkers ==
    {Walker(glob_pattern, <<WalkRoot>> \o rest) :
       glob_pattern \in BOOLEAN,
       rest \in UNION {[1..n -> WalkItems] : n \in 0..MaxWalkItems}}
    \cup {Walker(glob_pattern, <<WalkError>>) : glob_pattern \in BOOLEAN}

\* WalkEntry; the path of an entry is its place in the walk.
WalkEntry(path, is_dir) == [is_dir |-> is_dir, path |-> path]

\* FileSystemResponse of walk_directory.
NoWalkResponse == [entries |-> <<>>, truncated |-> FALSE, type |-> "none"]
FsWalkResult(entries, truncated) ==
    [entries |-> entries, truncated |-> truncated, type |-> "FsWalkResult"]

\* The for loop of walk_directory from item i on.
RECURSIVE WalkFrom(_, _, _)
WalkFrom(w, i, entries) ==
    IF i > Len(w.items) THEN FsWalkResult(entries, FALSE)
    ELSE IF Len(entries) >= max_entries THEN FsWalkResult(entries, TRUE)
    ELSE IF ~w.items[i].ok THEN WalkFrom(w, i + 1, entries)
    ELSE IF w.items[i].root THEN WalkFrom(w, i + 1, entries)
    ELSE IF w.glob_pattern /\ ~w.items[i].matches THEN WalkFrom(w, i + 1, entries)
    ELSE WalkFrom(w, i + 1, Append(entries, WalkEntry(i, w.items[i].is_dir)))

walk_directory(w) == WalkFrom(w, 1, <<>>)

\* An FsWalk request is handled.
FsWalk ==
    /\ walkResponse = NoWalkResponse
    /\ walkResponse' = walk_directory(walker)
    /\ UNCHANGED walker
    /\ UNCHANGED walkOthers

InitWalk(w) ==
    /\ walker = w
    /\ walkResponse = NoWalkResponse

NextWalk ==
    \/ FsWalk

(***************************************************************************)
(* The child of a batch command and the output task on its pipes           *)
(* (silk.rs execute, core.rs SilkExecute output task).  The child writes   *)
(* its output unit by unit; a write blocks while the pipe is full, a read  *)
(* blocks while the pipe is empty and the child has it open.               *)
(***************************************************************************)
\* What the child does: the stream of each unit it writes, in order, before
\* it exits.
ChildScripts == UNION {[1..n -> {"stdout", "stderr"}] : n \in 0..MaxWrites}
ChildProcess(script, exited) == [exited |-> exited, script |-> script]

\* What the pipe actions leave alone.
pipeOthers == <<silkSessions, nextSilk, silkCount, lastSilk, ptyVars, rtcVars, agentVars,
                adiVars, proxyVars, genVars, ansiVars, listVars, walkVars, subscriberVars, lockVars>>

\* The child writes its next unit: write(2) returns once the pipe has room.
ChildWrite ==
    /\ ~child.exited
    /\ child.script # <<>>
    /\ IF Head(child.script) = "stdout"
       THEN /\ outPipe < PipeCapacity
            /\ outPipe' = outPipe + 1
            /\ UNCHANGED errPipe
       ELSE /\ errPipe < PipeCapacity
            /\ errPipe' = errPipe + 1
            /\ UNCHANGED outPipe
    /\ child' = [child EXCEPT !.script = Tail(@)]
    /\ UNCHANGED <<stderrBuf, silkTasks, sink>>
    /\ UNCHANGED pipeOthers

\* The child has written everything and exits: its ends of both pipes close.
ChildProcessExit ==
    /\ ~child.exited
    /\ child.script = <<>>
    /\ child' = [child EXCEPT !.exited = TRUE]
    /\ UNCHANGED <<outPipe, errPipe, stderrBuf, silkTasks, sink>>
    /\ UNCHANGED pipeOthers

\* stdout_reader.get_mut().read(&mut buf) returns Ok(n), n > 0: what is in
\* the pipe is read and written to the sink as Output.
PipeStdoutRead(t) ==
    /\ t \in silkTasks
    /\ t.kind = "output" /\ t.stage = "stdout"
    /\ outPipe > 0
    /\ outPipe' = 0
    /\ sink' = Append(sink, SilkOutput(t.sid, t.cid, "stdout", t.n + 1))
    /\ silkTasks' = (silkTasks \ {t}) \cup {[t EXCEPT !.n = t.n + 1]}
    /\ UNCHANGED <<child, errPipe, stderrBuf>>
    /\ UNCHANGED pipeOthers

\* read returns Ok(0): the pipe is empty and the child has closed it.  The
\* loop ends and read_to_end on stderr begins.
PipeStdoutEof(t) ==
    /\ t \in silkTasks
    /\ t.kind = "output" /\ t.stage = "stdout"
    /\ outPipe = 0
    /\ child.exited
    /\ silkTasks' = (silkTasks \ {t}) \cup {[t EXCEPT !.stage = "stderr"]}
    /\ UNCHANGED <<child, outPipe, errPipe, stderrBuf, sink>>
    /\ UNCHANGED pipeOthers

\* read_to_end reads what is in the stderr pipe into stderr_buf.
PipeStderrRead(t) ==
    /\ t \in silkTasks
    /\ t.kind = "output" /\ t.stage = "stderr"
    /\ errPipe > 0
    /\ errPipe' = 0
    /\ stderrBuf' = stderrBuf + errPipe
    /\ UNCHANGED <<child, outPipe, silkTasks, sink>>
    /\ UNCHANGED pipeOthers

\* read_to_end returns at the end of stderr; stderr_buf is written to the
\* sink as one Output unless it is empty, and child.wait() comes next.
PipeStderrEof(t) ==
    /\ t \in silkTasks
    /\ t.kind = "output" /\ t.stage = "stderr"
    /\ errPipe = 0
    /\ child.exited
    /\ sink' = IF stderrBuf > 0
               THEN Append(sink, SilkOutput(t.sid, t.cid, "stderr", stderrBuf))
               ELSE sink
    /\ silkTasks' = (silkTasks \ {t}) \cup {[t EXCEPT !.stage = "wait"]}
    /\ UNCHANGED <<child, outPipe, errPipe, stderrBuf>>
    /\ UNCHANGED pipeOthers

InitPipes(script) ==
    /\ child = ChildProcess(script, FALSE)
    /\ outPipe = 0
    /\ errPipe = 0
    /\ stderrBuf = 0

\* The output task of one command and the child it reads from.
NextPipes ==
    \/ ChildWrite
    \/ ChildProcessExit
    \/ \E t \in silkTasks : PipeStdoutRead(t)
    \/ \E t \in silkTasks : PipeStdoutEof(t)
    \/ \E t \in silkTasks : PipeStderrRead(t)
    \/ \E t \in silkTasks : PipeStderrEof(t)
    \/ \E t \in silkTasks : SilkComplete(t)

(***************************************************************************)
(* The three mutexes of the dispatch loop (core.rs): the Silk session map, *)
(* the PTY session map and the shared sink, and the order in which the     *)
(* request handlers and the background tasks take and release them.        *)
(***************************************************************************)
Mutexes == {"silk", "pty", "sink"}
LockTaskIds == 1..MaxLockTasks

Acquire(m) == <<"acquire", m>>
Release(m) == <<"release", m>>

\* The output task's completion block, had it taken the sink before the
\* Silk session map.
CompletionLocks_SinkFirst ==
    <<Acquire("sink"), Acquire("silk"), Release("silk"), Release("sink")>>

\* The completion block of the output task: sessions_for_cwd.lock(), then
\* writer_for_output.lock() inside it; both guards go at the end of the
\* block, the later one first.
CompletionLocks ==
    <<Acquire("silk"), Acquire("sink"), Release("sink"), Release("silk")>>

\* The response, if any, is sent under the sink lock after the arm has
\* ended and dropped its guards.
ResponseLocks == <<Acquire("sink"), Release("sink")>>

\* The lock operations of a task, in program order.
\*   pty_arm:      AttachPty, PtyInput, PtyResize, PtyClose
\*   silk_arm:     SilkCreateSession, SilkCloseSession
\*   execute_pty:  SilkExecute of an interactive command
\*   execute:      SilkExecute of a batch command (CommandStarted is sent
\*                 with the Silk guard still alive)
\*   output:       the output task of a batch command: one Output, then
\*                 the completion block
\*   silk_forward: SilkInput, SilkResize (drop(silk_sessions), then the PTY map)
\*   send:         the send task of a PTY chunk, the WebRTC forwarder
LockProgram(kind) ==
    CASE kind = "pty_arm" -> <<Acquire("pty"), Release("pty")>> \o ResponseLocks
      [] kind = "silk_arm" -> <<Acquire("silk"), Release("silk")>> \o ResponseLocks
      [] kind = "execute_pty" ->
            <<Acquire("silk"), Release("silk"), Acquire("pty"), Release("pty"),
              Acquire("silk"), Release("silk")>> \o ResponseLocks
      [] kind = "execute" ->
            <<Acquire("silk"), Acquire("sink"), Release("sink"), Release("silk")>>
      [] kind = "output" -> ResponseLocks \o CompletionLocks
      [] kind = "silk_forward" ->
            <<Acquire("silk"), Release("silk"), Acquire("pty"), Release("pty")>>
               \o ResponseLocks
      [] kind = "send" -> ResponseLocks

LockKinds ==
    {"pty_arm", "silk_arm", "execute_pty", "execute", "output", "silk_forward", "send"}

\* The operation task t is at.
LockOp(t) == LockProgram(lockTasks[t].kind)[lockTasks[t].pc]

\* Task t has done its operation: it goes on to the next, or ends.
LockAdvance(t) ==
    IF lockTasks[t].pc = Len(LockProgram(lockTasks[t].kind))
    THEN [u \in DOMAIN lockTasks \ {t} |-> lockTasks[u]]
    ELSE [lockTasks EXCEPT ![t].pc = @ + 1]

\* tokio::spawn: a request task, or a background task, starts.
LockTaskSpawn(kind) ==
    /\ lockSpawned < MaxLockTasks
    /\ lockSpawned' = lockSpawned + 1
    /\ lockTasks' = MapInsert(lockTasks, lockSpawned + 1, [kind |-> kind, pc |-> 1])
    /\ UNCHANGED lockHeld
    /\ UNCHANGED lockOthers

\* mutex.lock().await returns: the mutex was free and the task holds it now.
\* While another task holds it the task waits.
LockAcquire(t) ==
    /\ t \in DOMAIN lockTasks
    /\ LockOp(t)[1] = "acquire"
    /\ lockHeld[LockOp(t)[2]] = 0
    /\ lockHeld' = [lockHeld EXCEPT ![LockOp(t)[2]] = t]
    /\ lockTasks' = LockAdvance(t)
    /\ UNCHANGED lockSpawned
    /\ UNCHANGED lockOthers

\* The guard is dropped.
LockRelease(t) ==
    /\ t \in DOMAIN lockTasks
    /\ LockOp(t)[1] = "release"
    /\ lockHeld' = [lockHeld EXCEPT ![LockOp(t)[2]] = 0]
    /\ lockTasks' = LockAdvance(t)
    /\ UNCHANGED lockSpawned
    /\ UNCHANGED lockOthers

InitLocks ==
    /\ lockHeld = [m \in Mutexes |-> 0]
    /\ lockTasks = EmptyMap
    /\ lockSpawned = 0

NextLocks ==
    \/ \E kind \in LockKinds : LockTaskSpawn(kind)
    \/ \E t \in LockTaskIds : LockAcquire(t)
    \/ \E t \in LockTaskIds : LockRelease(t)

(***************************************************************************)
(* Initial state: run() has connected and built its empty maps.            *)
(***************************************************************************)
InitPty ==
    /\ ptySessions = EmptyMap
    /\ ptyLock = 0
    /\ nextPty = 1
    /\ childState = [i \in PtyIds |-> "none"]
    /\ readerState = [i \in PtyIds |-> "none"]
    /\ nRead = [i \in PtyIds |-> 0]
    /\ ptyTasks = {}
    /\ linkUp = TRUE
    /\ cmdCount = 0
    /\ lastCmd = [seq |-> 0, type |-> "none", sid |-> 0, found |-> FALSE]
    /\ ptyClosed = {}

\* The session managers and the agent before the first request.
InitSessions ==
    /\ sink = <<>>
    /\ InitPty
    /\ InitRtc
    /\ InitAgent
    /\ InitAdi
    /\ InitSilk

\* The helpers before their first call, with the inputs the session
\* managers run with.
IdleProxy == InitProxy(NoServices)
IdleGen == InitGen(<<0>>)
IdleAnsi == InitAnsi(<<>>)
IdleList == InitList(ReadDir(FALSE, <<>>))
IdleWalk == InitWalk(Walker(FALSE, <<>>))
IdlePipes == InitPipes(<<>>)

Init ==
    /\ InitSessions
    /\ IdleProxy
    /\ IdleGen
    /\ IdleAnsi
    /\ IdleList
    /\ IdleWalk
    /\ IdlePipes
    /\ InitSubscribers
    /\ InitLocks

NextPty ==
    \/ \E size \in PtySizes, ok \in BOOLEAN : AttachPtyCreate(size, ok)
    \/ \E t \in ptyTasks : AttachPtyInsert(t)
    \/ \E sid \in PtyIds, data \in InputData : \E wok \in IoOutcomes(sid) :
          PtyInput(sid, data, wok)
    \/ \E sid \in PtyIds, size \in PtySizes : \E rok \in IoOutcomes(sid) :
          PtyResize(sid, size, rok)
    \/ \E sid \in PtyIds : PtyCloseBegin(sid)
    \/ \E exitCode \in ExitCodes : PtyCloseFinish(exitCode)
    \/ \E sid \in PtyIds : ChildExit(sid)
    \/ \E sid \in PtyIds : ReaderEnd(sid)
    \/ PtyLinkShutdown

\* The PTY output path on its own: sessions are attached, their readers
\* read chunks and the spawned tasks send them.
NextPtyOutput ==
    \/ \E size \in PtySizes, ok \in BOOLEAN : AttachPtyCreate(size, ok)
    \/ \E t \in ptyTasks : AttachPtyInsert(t)
    \/ \E sid \in PtyIds : ChildExit(sid)
    \/ \E sid \in PtyIds : ReaderRead(sid)
    \/ \E sid \in PtyIds : ReaderEnd(sid)
    \/ \E t \in ptyTasks : SendTaskRun(t)

\* One run of the agent with PTY sessions streaming output while the signal
\* handler shuts it down.  The loop reads requests, and the runtime polls
\* the spawned tasks, until run() returns.
NextShutdown ==
    \/ \E env \in EnvChoices : AgentStart(env, NoSetup, TRUE)
    \/ SendRegister(TRUE)
    \/ \E ok \in BOOLEAN : RecvRegistered(ok)
    \/ SignalArrives
    \/ \E ok \in BOOLEAN : SignalDeregister(ok)
    \/ SignalNotify
    \/ LoopShutdown
    \/ agentPhase = "running" /\ AttachPtyCreate("80x24", TRUE)
    \/ \E t \in ptyTasks : agentPhase = "running" /\ AttachPtyInsert(t)
    \/ \E sid \in PtyIds : agentPhase = "running" /\ ReaderRead(sid)
    \/ \E t \in ptyTasks : agentPhase = "running" /\ SendTaskRun(t)

\* Sessions being announced, step by step, while requests that name them
\* and requests that close them are handled.
NextPtyAnnounce ==
    \/ silkCount + cmdCount < MaxSilkCmds /\ AttachPtyCreate("80x24", TRUE)
    \/ \E t \in ptyTasks : AttachPtyInsertSession(t)
    \/ \E t \in ptyTasks : AttachPtyRespond(t)
    \/ nextSilk \in SilkIds /\ SilkCreateSession(<<>>, TRUE)
    \/ \E sid \in SilkIds, cmd \in InteractiveCommands : SilkExecute(sid, cmd, TRUE, 0)
    \/ \E t \in silkTasks, ok \in BOOLEAN : SilkPtyCreate(t, ok)
    \/ \E t \in silkTasks : SilkPtyInsert(t)
    \/ \E t \in silkTasks : SilkPtyRecord(t)
    \/ \E t \in silkTasks : SilkPtyRespond(t)
    \/ \E sid \in PtyIds, data \in InputData : \E wok \in IoOutcomes(sid) :
          silkCount + cmdCount < MaxSilkCmds /\ PtyInput(sid, data, wok)
    \/ \E sid \in SilkIds, cid \in CmdIds, data \in InputData, wok \in BOOLEAN :
          SilkInput(sid, cid, data, wok)
    \/ \E sid \in PtyIds : silkCount + cmdCount < MaxSilkCmds /\ PtyCloseBegin(sid)
    \/ PtyCloseFinish(0)
    \/ \E sid \in SilkIds : SilkCloseSession(sid)
    \/ \E sid \in PtyIds : ChildExit(sid)

\* PtyInput frames as the loop reads them and the tasks that handle them.
NextPtyInputOrder ==
    \/ \E size \in PtySizes, ok \in BOOLEAN : AttachPtyCreate(size, ok)
    \/ \E t \in ptyTasks : AttachPtyInsert(t)
    \/ \E sid \in PtyIds, data \in InputData : PtyInputSpawn(sid, data)
    \/ \E t \in ptyTasks, wok \in BOOLEAN : PtyInputRun(t, wok)
    \/ \E sid \in PtyIds : ChildExit(sid)

vars == <<sink, ptyVars, rtcVars, agentVars, adiVars, silkVars, pureVars>>

\* The PTY command arms of the dispatch loop (the sessions produce no output).
SpecPty == Init /\ [][NextPty]_vars

\* Shutdown by signal while tasks are running.
SpecShutdown == Init /\ [][NextShutdown]_vars

\* The tasks of the dispatch loop and the three mutexes.
SpecLocks == Init /\ [][NextLocks]_vars

\* Sessions announced to the client.
SpecPtyAnnounce == Init /\ [][NextPtyAnnounce]_vars

\* PtyInput frames and their tasks.
SpecPtyInputOrder == Init /\ [][NextPtyInputOrder]_vars

\* The PTY output path.
SpecPtyOutput == Init /\ [][NextPtyOutput]_vars

\* The WebRTC manager under the dispatch loop.
SpecWebRtc == Init /\ [][NextRtc]_vars

\* The identity store and the life of the agent process over several starts.
SpecAgent == Init /\ [][NextAgent]_vars

\* The registration of the agent over several starts.
SpecAgentRegister == Init /\ [][NextAgentRegister]_vars

\* The ADI router with the Tasks service.
SpecAdi == Init /\ [][NextAdi]_vars

\* Subscriptions while services are registered and unregistered.
SpecAdiSubscriptions == Init /\ [][NextAdiSubscriptions]_vars

\* The Tasks service and its events.
SpecTasks == Init /\ [][NextTasks]_vars

\* The Tasks service and the receivers its subscribers keep.
SpecTasksSubscribe == Init /\ [][NextTasksSubscribe]_vars

\* The ADI router: its registry and the routing of requests.
SpecAdiRouter == Init /\ [][NextAdiRouter]_vars

\* The Silk session manager with the PTY sessions of its interactive commands.
SpecSilk == Init /\ [][NextSilk]_vars

\* The Silk session manager with batch commands and their output.
SpecSilkBatch == Init /\ [][NextSilkBatch]_vars

\* Two Silk sessions and their closing.
SpecSilkClose == Init /\ [][NextSilkClose]_vars

\* The HTTP proxy with each registry.
InitProxyRequests ==
    /\ InitSessions
    /\ IdleGen
    /\ IdleAnsi
    /\ IdleList
    /\ IdleWalk
    /\ IdlePipes
    /\ InitSubscribers
    /\ InitLocks
    /\ \E registry \in ServiceRegistries : InitProxy(registry)

SpecProxy == InitProxyRequests /\ [][NextProxy]_vars

\* generate_strong_secret with each of the index streams, and validate_secret
\* on what it returns.
InitSecret ==
    /\ InitSessions
    /\ IdleProxy
    /\ IdleAnsi
    /\ IdleList
    /\ IdleWalk
    /\ IdlePipes
    /\ InitSubscribers
    /\ InitLocks
    /\ \E indices \in RngStreams : InitGen(indices)

SpecSecret == InitSecret /\ [][NextSecret]_vars

\* AnsiToHtml::convert on every chunk of output up to the bound.
InitAnsiInputs ==
    /\ InitSessions
    /\ IdleProxy
    /\ IdleGen
    /\ IdleList
    /\ IdleWalk
    /\ IdlePipes
    /\ InitSubscribers
    /\ InitLocks
    /\ \E input \in AnsiInputs : InitAnsi(input)

SpecAnsi == InitAnsiInputs /\ [][NextAnsi]_vars

\* list_directory on every directory up to the bound.
InitListings ==
    /\ InitSessions
    /\ IdleProxy
    /\ IdleGen
    /\ IdleAnsi
    /\ IdleWalk
    /\ IdlePipes
    /\ InitSubscribers
    /\ InitLocks
    /\ \E read \in ReadDirs : InitList(read)

SpecList == InitListings /\ [][NextList]_vars

\* walk_directory on every walk up to the bound.
InitWalks ==
    /\ InitSessions
    /\ IdleProxy
    /\ IdleGen
    /\ IdleAnsi
    /\ IdleList
    /\ IdlePipes
    /\ InitSubscribers
    /\ InitLocks
    /\ \E w \in Walkers : InitWalk(w)

SpecWalk == InitWalks /\ [][NextWalk]_vars

\* A batch command has been started in a Silk session: CommandStarted is on
\* the sink, the output task is at its first read, and the child is about
\* to run one of the scripts.
InitPipeRuns ==
    /\ InitPty
    /\ InitRtc
    /\ InitAgent
    /\ InitAdi
    /\ silkSessions = [sid \in {1} |->
                         [NewSilkSession(<<>>) EXCEPT
                            !.cmds = MapInsert(@, 2, RunningCommand(FALSE))]]
    /\ nextSilk = 2
    /\ silkCount = 2
    /\ lastSilk = SilkReq("execute", 1, 2, Cmd("ls", Target("none", <<>>)))
    /\ silkTasks = {[kind |-> "output", sid |-> 1, cid |-> 2,
                      cmd |-> Cmd("ls", Target("none", <<>>)), stage |-> "stdout",
                      n |-> 0, exit |-> 0]}
    /\ sink = <<SessionCreated(1, Home), CommandStarted(1, 2)>>
    /\ IdleProxy
    /\ IdleGen
    /\ IdleAnsi
    /\ IdleList
    /\ IdleWalk
    /\ InitSubscribers
    /\ InitLocks
    /\ \E script \in ChildScripts : InitPipes(script)

\* The child and the output task both run whenever they can.
SpecPipes == InitPipeRuns /\ [][NextPipes]_vars /\ WF_vars(NextPipes)

\* The WebRTC manager: create_session and close_session against callbacks.
SpecWebRtcManager == Init /\ [][NextRtcManager]_vars

(***************************************************************************)
(* Claims about the PTY manager.                                           *)
(***************************************************************************)
\* The data fields of the PtyOutput frames of session sid, in sink order.
RECURSIVE PtyDelivered(_, _)
PtyDelivered(frames, sid) ==
    IF frames = <<>> THEN <<>>
    ELSE LET f == Head(frames)
             rest == PtyDelivered(Tail(frames), sid)
         IN IF f.type = "pty_output" /\ f.sid = sid THEN <<f.data>> \o rest ELSE rest

\* C1: for every PTY session the PtyOutput frames on the sink are in the
\* order the reader read the chunks: the delivered data is chunk 1, chunk 2,
\* ... with nothing out of place, whatever order the spawned send tasks run in.
C1_PtyOutputInReadOrder ==
    \A sid \in PtyIds :
        LET d == PtyDelivered(sink, sid)
        IN \A i \in 1..Len(d) : \A j \in 1..Len(d) : i < j => d[i] < d[j]

\* C8: a PTY session is out of the map once a PtyClose was processed for it,
\* once its child has exited (and the reader has seen the end of its output),
\* and once the link is down; a PtyInput for it then yields session_not_found.
C8_SessionLeavesMap ==
    \A sid \in PtyIds :
        (\/ sid \in ptyClosed
         \/ (childState[sid] = "exited" /\ readerState[sid] = "done")
         \/ ~linkUp)
        => /\ sid \notin DOMAIN ptySessions
           /\ PtyInputResponse(ptySessions, sid, TRUE)
                 = <<ErrorFrame(sid, "session_not_found")>>

\* C9: a PtyInput, PtyResize or PtyClose naming an id that is not in the map
\* writes exactly one Error frame with code session_not_found and changes
\* neither the map nor any session, child, reader or pending task.
C9_UnknownSessionError ==
    [][(/\ cmdCount' = cmdCount + 1
        /\ lastCmd'.type \in {"pty_input", "pty_resize", "pty_close"}
        /\ lastCmd'.sid \notin DOMAIN ptySessions)
       => /\ sink' = Append(sink, ErrorFrame(lastCmd'.sid, "session_not_found"))
          /\ UNCHANGED <<ptySessions, ptyLock, childState, readerState, nRead,
                         ptyTasks, ptyClosed>>]_vars

\* C9 witness: a second PtyClose for an id that was already closed has been
\* answered with session_not_found while another session is in the map.
C9_Witness ==
    /\ lastCmd.type = "pty_close"
    /\ lastCmd.sid \in ptyClosed
    /\ ~lastCmd.found
    /\ DOMAIN ptySessions # {}
    /\ Len(sink) > 0
    /\ sink[Len(sink)] = ErrorFrame(lastCmd.sid, "session_not_found")


(***************************************************************************)
(* WebRTC manager claims.                                                  *)
(***************************************************************************)
\* A close_session task returns in this step.
CloseReturns(t) ==
    /\ t.kind = "close"
    /\ \A u \in rtcTasks' : u.id # t.id

\* A close_session call for this id has returned.
ClosedBefore(sid) == lastClose.sid = sid \/ \E pc \in pcClosed : pcSession[pc] = sid

\* A peer-connection callback finishes (under the map lock) in this step.
CallbackFinishes(cb) == \A u \in rtcCallbacks' : u.id # cb.id

\* C2: once a close_session(S) call has returned, a create_session(S) that
\* returns Ok leaves S in the map with the session it built, in its initial
\* state, and S counts exactly once in session_count - in every reachable
\* state of the manager, so for any number of create/close cycles.
C2_RecreateAfterClose ==
    [][(rtcLoop.state = "creating" /\ rtcLoop'.state = "idle"
        /\ ClosedBefore(rtcLoop.sid))
       => LET S == rtcLoop.sid IN
          /\ S \in DOMAIN rtcSessions'
          /\ rtcSessions'[S] = NewRtcSession(rtcLoop.pc)
          /\ Cardinality(DOMAIN rtcSessions') = Cardinality(DOMAIN rtcSessions \ {S}) + 1
          /\ sink' = sink]_vars

\* C2 witness: session 1 was closed with a real peer close, created again by
\* the frame handled last, and is counted once.
C2_Witness ==
    /\ pcClosed = {1}
    /\ pcSession[1] = 1
    /\ lastClose.sid = 1
    /\ lastClose.outcome \in {"ok", "err", "timeout"}
    /\ lastFrame = [type |-> "web_rtc_start_session", sid |-> 1, ok |-> TRUE]
    /\ session_exists(1)
    /\ rtcSessions[1].pc = 2
    /\ session_count = 1

\* C3: after close_session(S) has removed the session of a peer connection
\* and create_session(S) has stored a new one, a callback of the earlier
\* peer connection that finishes leaves the session map as it was.
C3_StaleCallbackHarmless ==
    [][\A cb \in rtcCallbacks :
          (/\ cb.step = "invoked"
           /\ CallbackFinishes(cb)
           /\ cb.pc \in pcClosed
           /\ pcState[cb.pc] # "closed"
           /\ pcSession[cb.pc] \in DOMAIN rtcSessions
           /\ cb.pc < rtcSessions[pcSession[cb.pc]].pc)
          => rtcSessions' = rtcSessions]_vars

\* C4: every close_session(S) call returns Ok with S absent from the map,
\* whatever the peer close did; a call that finds S absent changes nothing.
C4_CloseIdempotentTotal ==
    [][\A t \in rtcTasks :
          CloseReturns(t)
          => /\ lastClose'.sid = t.sid
             /\ lastClose'.result = "ok"
             /\ t.sid \notin DOMAIN rtcSessions'
             /\ t.step = "spawned"
                => /\ lastClose'.outcome = "absent"
                   /\ UNCHANGED <<sink, rtcSessions, rtcLock, pcState, pcSession,
                                  rtcCallbacks, rtcOut, rtcLoop>>]_vars

\* C4 witness: a close_session call for a session whose peer connection an
\* earlier close had closed found the id absent and returned Ok.
C4_Witness ==
    /\ lastClose.outcome = "absent"
    /\ lastClose.result = "ok"
    /\ lastClose.sid \notin DOMAIN rtcSessions
    /\ \E pc \in PcIds : pcSession[pc] = lastClose.sid /\ pcState[pc] = "closed"

\* The callback cb runs under the map lock and finishes in this step.
CallbackRuns(cb) == cb \in rtcCallbacks /\ CallbackFinishes(cb)

\* WebRtcSessionEnded{sid, reason} has been sent upstream: it waits in the
\* signaling channel or is on the sink.
EndedSent(sid, reason) ==
    \/ \E n \in 1..Len(rtcOut') : rtcOut'[n] = WebRtcSessionEndedFrame(sid, reason)
    \/ \E n \in 1..Len(sink') : sink'[n] = WebRtcSessionEndedFrame(sid, reason)

\* C25: a WebRTC session is created in state "pending"; its state becomes
\* "connected" only on a Connected event of its peer connection; each
\* Disconnected, Failed or Closed event sends WebRtcSessionEnded{session_id,
\* reason} with that reason and removes the session from the map; no other
\* peer-connection state changes the map.
C25_SessionStateFollowsPeer ==
    [][/\ \A sid \in DOMAIN rtcSessions' :
             (sid \notin DOMAIN rtcSessions \/ rtcSessions'[sid].pc # rtcSessions[sid].pc)
                => rtcSessions'[sid].state = "pending"
       /\ \A sid \in DOMAIN rtcSessions \cap DOMAIN rtcSessions' :
             (rtcSessions'[sid].pc = rtcSessions[sid].pc
                 /\ rtcSessions'[sid].state # rtcSessions[sid].state)
                => /\ rtcSessions'[sid].state = "connected"
                   /\ \E cb \in rtcCallbacks :
                         CallbackRuns(cb) /\ cb.st = "connected" /\ cb.pc = rtcSessions[sid].pc
       /\ \A cb \in rtcCallbacks :
             CallbackRuns(cb) =>
                IF cb.st \in {"disconnected", "failed", "closed"}
                THEN /\ EndedSent(pcSession[cb.pc], cb.st)
                     /\ pcSession[cb.pc] \notin DOMAIN rtcSessions'
                ELSE cb.st \notin {"connected"} \cup ChannelLabels
                        => rtcSessions' = rtcSessions]_vars

\* C5: an offer task spawned for the frame right after a successful
\* WebRtcStartSession for the same id finds the session when it looks it up
\* (no peer-connection event has occurred, so only the tasks the loop spawned
\* for earlier frames run beside it).
C5_OfferFindsSession ==
    [][\A t \in rtcTasks :
          (/\ t.kind = "offer"
           /\ t.step = "spawned"
           /\ t.afterStart
           /\ rtcEvents = 0
           /\ t \notin rtcTasks')
          => [t EXCEPT !.step = "negotiating"] \in rtcTasks']_vars


(***************************************************************************)
(* Shutdown and identity claims.                                           *)
(***************************************************************************)
\* C6: when run() has returned - after a signal, or after the read half gave
\* EOF, a Close frame or an error - a Deregister frame with the recorded
\* device id is on the sink if a device id was recorded, and no Deregister
\* frame is on it otherwise.
C6_DeregisterOnShutdown ==
    agentPhase = "returned"
    => IF currentDeviceId # <<>>
       THEN \E i \in 1..Len(sink) : sink[i] = DeregisterFrame(currentDeviceId[1], "shutdown")
       ELSE \A i \in 1..Len(sink) : sink[i].type # "deregister"

\* C7: in a process that took its secret from .secret or generated it, a
\* device id returned by get_or_create_secret (one the server assigned for a
\* secret of .secret) was assigned for the secret returned with it.
C7_DeviceIdMatchesSecret ==
    (/\ agentPhase \in {"started", "running"}
     /\ deviceArg # <<>>
     /\ secret[1] # EnvSecret
     /\ deviceArg[1] # DeviceOf(EnvSecret))
    => deviceArg[1] = DeviceOf(secret[1])


\* The step in which the registration is sent.
SendsRegistration == agentPhase = "started" /\ agentPhase' = "running"

\* The first frame on the sink of a connection is written by the
\* registration step, and it is this frame.
FirstFrameIs(frame) ==
    /\ agentPhase' = "started" => sink' = <<>>
    /\ SendsRegistration => sink = <<>> /\ sink' = <<frame>>

Queued(ev) == \E r \in DOMAIN tasksRx : \E n \in 1..Len(tasksRx[r]) : tasksRx[r][n] = ev

\* C10: every event the Tasks service has emitted while a subscription I to
\* its name (or to "*") was in the router's map has been handed to the client
\* as exactly one Event{subscription_id: I, event, data}, or is still queued
\* at a receiver of the event channel, on its way to the client.
C10_EventsDelivered ==
    \A k \in 1..Len(tasksEmitted) :
       \A I \in tasksEmitted[k].subs :
          \/ Queued([event |-> tasksEmitted[k].event, task |-> tasksEmitted[k].task])
          \/ Cardinality({n \in 1..Len(adiOut) :
                             adiOut[n] = AdiEvent(I, tasksEmitted[k].event,
                                                  tasksEmitted[k].task)}) = 1


(***************************************************************************)
(* Claims about the ADI router.                                            *)
(***************************************************************************)
\* A step in which the router handles a request of this type.
Handles(type) == adiCalls' = adiCalls + 1 /\ adiReq'.type = type

\* C11: Unsubscribe{I} is idempotent.  For every subscription id I, in the
\* map or not, the call returns Unsubscribed{I}; afterwards I is not in the
\* subscription map and every other subscription is as it was; when I was
\* not in the map (so for a second Unsubscribe{I}) the map does not change,
\* and a second consecutive Unsubscribe{I} returns the response of the first.
C11_UnsubscribeIdempotent ==
    [][Handles("unsubscribe") =>
          LET id == adiReq'.id IN
          /\ adiOut' = Append(adiOut, AdiUnsubscribed(id))
          /\ id \notin DOMAIN adiSubs'
          /\ DOMAIN adiSubs' = DOMAIN adiSubs \ {id}
          /\ \A j \in DOMAIN adiSubs' : adiSubs'[j] = adiSubs[j]
          /\ (id \notin DOMAIN adiSubs => adiSubs' = adiSubs)
          /\ (adiReq = AdiReq("unsubscribe", id, "", "") =>
                 /\ adiSubs' = adiSubs
                 /\ adiOut'[Len(adiOut')] = adiOut[Len(adiOut)])]_vars

\* C11 witness: a subscription that existed has been unsubscribed twice in
\* a row while another subscription is still in the map.
C11_Witness ==
    /\ Len(adiOut) >= 3
    /\ adiReq.type = "unsubscribe"
    /\ adiOut[Len(adiOut)] = AdiUnsubscribed(adiReq.id)
    /\ adiOut[Len(adiOut) - 1] = AdiUnsubscribed(adiReq.id)
    /\ \E n \in 1..Len(adiOut) :
          adiOut[n].type = "subscribed" /\ adiOut[n].id = adiReq.id
    /\ DOMAIN adiSubs # {}

\* The names a service declares.
Declared(svc) == {methods(svc)[n] : n \in 1..Len(methods(svc))}

\* C12: AdiRouter::handle returns ServiceNotFound iff the request's service
\* is not registered; otherwise MethodNotFound with all method names of the
\* service iff the method is not declared, and then the handler is not
\* invoked; otherwise the handler of the registered service is invoked and
\* its Success, Stream or error comes back as Success, Stream or Error with
\* the error's code.  request_id, service and method are those of the request.
C12_HandleRouting ==
    [][Handles("request") =>
          /\ Len(adiResult') = 1
          /\ LET q == adiReq'
                 r == adiResult'[1]
                 registered == q.service \in DOMAIN adiServices IN
             /\ r.request_id = q.id /\ r.service = q.service
             /\ (r.type = "service_not_found") <=> ~registered
             /\ ~registered => adiInvoked' = <<>>
             /\ registered =>
                  LET svc == adiServices[q.service] IN
                  /\ r.method = q.method
                  /\ (r.type = "method_not_found") <=> q.method \notin Declared(svc)
                  /\ q.method \notin Declared(svc) =>
                        /\ r.available_methods = methods(svc)
                        /\ adiInvoked' = <<>>
                  /\ q.method \in Declared(svc) =>
                        /\ Len(adiInvoked') = 3
                        /\ adiInvoked'[1] = svc /\ adiInvoked'[2] = q.method
                        /\ r.type = adiInvoked'[3].kind
                        /\ r.type \in {"success", "stream", "error"}
                        /\ (r.type = "error" => r.code = adiInvoked'[3].code)]_vars

\* C12 witness: a request for a method the service declares, but not first,
\* reached the handler of a service registered after start-up, and the
\* handler's error came back as Error with the request's id.
C12_Witness ==
    /\ adiReq = AdiReq("request", 2, "test", "count")
    /\ adiInvoked = <<Service("test", 1), "count", [kind |-> "error", code |-> "internal"]>>
    /\ adiResult = <<AdiResponse("error", 2, "test", "count") @@ [code |-> "internal"]>>

\* One notification, this one, was sent and queued at every live receiver.
EmitsOne(note) ==
    /\ adiNotes' = Append(adiNotes, note)
    /\ DOMAIN notifyRx' = DOMAIN notifyRx
    /\ \A r \in DOMAIN notifyRx : notifyRx'[r] = Append(notifyRx[r], note)

\* C13: every change of the service registry emits exactly one
\* ServicesChanged notification.  register of an id not yet registered adds
\* the service and emits added=[id]; register of an id already registered
\* replaces the service by the one registered last and emits updated=[id];
\* unregister of a registered id removes it, emits removed=[id] and returns
\* true; unregister of an unknown id emits nothing, changes nothing and
\* returns false.  Nothing else emits a notification.
C13_RegistryNotifications ==
    [][LET id == adiReq'.service IN
       /\ adiServices' # adiServices => Len(adiNotes') = Len(adiNotes) + 1
       /\ adiNotes' # adiNotes => Handles("register") \/ Handles("unregister")
       /\ Handles("register") =>
             /\ DOMAIN adiServices' = DOMAIN adiServices \cup {id}
             /\ adiServices'[id] = Service(id, adiReq'.id)
             /\ \A j \in DOMAIN adiServices \ {id} : adiServices'[j] = adiServices[j]
             /\ id \notin DOMAIN adiServices => EmitsOne(ServicesChanged(<<id>>, <<>>, <<>>))
             /\ id \in DOMAIN adiServices => EmitsOne(ServicesChanged(<<>>, <<>>, <<id>>))
       /\ Handles("unregister") =>
             /\ id \in DOMAIN adiServices =>
                   /\ DOMAIN adiServices' = DOMAIN adiServices \ {id}
                   /\ \A j \in DOMAIN adiServices' : adiServices'[j] = adiServices[j]
                   /\ EmitsOne(ServicesChanged(<<>>, <<id>>, <<>>))
                   /\ adiReturn' = <<TRUE>>
             /\ id \notin DOMAIN adiServices =>
                   /\ adiReturn' = <<FALSE>>
                   /\ UNCHANGED <<adiServices, adiNotes, notifyRx>>]_vars

\* C13 witness: with a notification receiver listening, the Tools service
\* was registered a second time with another object; the registry holds the
\* later object and the receiver's last notification is updated=[tools].
C13_Witness ==
    /\ adiReq = AdiReq("register", 2, "tools", "")
    /\ adiServices["tools"] = Service("tools", 2)
    /\ 1 \in DOMAIN notifyRx
    /\ Len(notifyRx[1]) >= 2
    /\ notifyRx[1][Len(notifyRx[1])] = ServicesChanged(<<>>, <<>>, <<"tools">>)
    /\ \E n \in 1..Len(notifyRx[1]) : notifyRx[1][n] = ServicesChanged(<<>>, <<"test">>, <<>>)

(***************************************************************************)
(* Claims about the Tasks service.                                         *)
(***************************************************************************)
\* The events a step broadcasts, in order, without their subscribers.
NewEvents ==
    [n \in 1..(Len(tasksEmitted') - Len(tasksEmitted)) |->
        [f \in DOMAIN tasksEmitted'[Len(tasksEmitted) + n] \ {"subs"} |->
            tasksEmitted'[Len(tasksEmitted) + n][f]]]

\* C14: a successful create emits exactly one task_created, a successful
\* delete exactly one task_deleted, a successful update exactly one
\* task_updated, followed by one task_status_changed{old_status, new_status}
\* iff the status changed; a call that returns an error emits no event.
C14_TaskEvents ==
    [][Handles("tasks") =>
          LET q == adiReq'
              r == adiOut'[Len(adiOut')]
              ev(name) == [event |-> name, task |-> r.id] IN
          /\ Len(adiOut') = Len(adiOut) + 1
          /\ r.type \in {"success", "response_error"}
          /\ r.type = "response_error" => NewEvents = <<>>
          /\ (r.type = "success" /\ q.method = "create") => NewEvents = <<ev("task_created")>>
          /\ (r.type = "success" /\ q.method = "delete") => NewEvents = <<ev("task_deleted")>>
          /\ (r.type = "success" /\ q.method = "update") =>
                IF tasksStore'[q.id] # tasksStore[q.id]
                THEN NewEvents = <<ev("task_updated"),
                                   ev("task_status_changed") @@
                                      [old_status |-> tasksStore[q.id],
                                       new_status |-> tasksStore'[q.id]]>>
                ELSE NewEvents = <<ev("task_updated")>>]_vars

(***************************************************************************)
(* Claims about the Silk session manager.                                  *)
(***************************************************************************)
\* A step in which the dispatch loop handles a Silk request of this type.
SilkHandles(type) == silkCount' = silkCount + 1 /\ lastSilk'.type = type

\* The PTY session InteractiveRequired announced for the command, 0 if the
\* sink holds no such frame.
AnnouncedPty(sid, cid) ==
    IF \E n \in 1..Len(sink) : \E P \in PtyIds : sink[n] = InteractiveRequired(sid, cid, P)
    THEN CHOOSE P \in PtyIds : \E n \in 1..Len(sink) : sink[n] = InteractiveRequired(sid, cid, P)
    ELSE 0

\* The SilkInput wrote data to PTY session P and to no other, and nothing
\* was answered.
WrittenOnlyTo(P, data) ==
    /\ DOMAIN ptySessions' = DOMAIN ptySessions
    /\ ptySessions'[P] = [ptySessions[P] EXCEPT !.written = Append(@, data)]
    /\ \A Q \in DOMAIN ptySessions \ {P} : ptySessions'[Q] = ptySessions[Q]
    /\ sink' = sink

FramesOf(cid) == SelectSeq(sink, LAMBDA f : "cid" \in DOMAIN f /\ f.cid = cid)

\* C16: for each non-interactive Silk command the frames on the sink with
\* its command_id are, in this order, one CommandStarted{interactive:false},
\* the stdout Outputs in the order their chunks were read, then the stderr
\* Output (if stderr was not empty), then one CommandCompleted: while the
\* output task runs the frames are a prefix of that sequence, and once the
\* task has ended the CommandCompleted is there.
C16_BatchFrameOrder ==
    \A cid \in CmdIds :
       LET F == FramesOf(cid)
           k == Cardinality({n \in 1..Len(F) : F[n].type = "output" /\ F[n].code = "stdout"})
           e == Cardinality({n \in 1..Len(F) : F[n].type = "output" /\ F[n].code = "stderr"})
           c == Cardinality({n \in 1..Len(F) : F[n].type = "command_completed"}) IN
       (F # <<>> /\ F[1].type = "command_started") =>
          /\ F[1].data = FALSE
          /\ Len(F) = 1 + k + e + c
          /\ e <= 1 /\ c <= 1
          /\ \A n \in 1..k : F[1 + n].type = "output" /\ F[1 + n].code = "stdout"
                                /\ F[1 + n].data = n
          /\ e = 1 => F[2 + k].code = "stderr"
          /\ c = 1 => F[Len(F)].type = "command_completed"
          /\ (\A t \in silkTasks : t.cid # cid) => c = 1

\* C17: a Silk session's cwd changes only after a successful batch command
\* whose command line starts with "cd " and whose target (after ~ expansion,
\* absolute or joined with the current cwd) canonicalizes, and then to the
\* canonical path; after a command that fails, a command that is not a cd,
\* and a cd whose target does not canonicalize, cwd is unchanged.
C17_CwdChangesOnlyOnCd ==
    [][\A sid \in DOMAIN silkSessions \cap DOMAIN silkSessions' :
          silkSessions'[sid].cwd # silkSessions[sid].cwd =>
             /\ lastSilk'.type = "completed" /\ lastSilk'.sid = sid
             /\ lastSilk'.arg.exit = 0
             /\ lastSilk'.arg.cmd.prog = "cd"
             /\ canonicalize(CdPath(silkSessions[sid].cwd, lastSilk'.arg.cmd.target))
                   = <<silkSessions'[sid].cwd>>]_vars

\* C18: in every reachable state the cwd of every Silk session is an
\* absolute canonical path.
C18_CwdAbsoluteCanonical ==
    \A sid \in DOMAIN silkSessions :
       /\ silkSessions[sid].cwd.abs
       /\ canonicalize(silkSessions[sid].cwd) = <<silkSessions[sid].cwd>>

\* C19: in every reachable state each RunningCommand recorded in a Silk
\* session has a PTY session id iff its interactive flag is true.
C19_PtyIffInteractive ==
    \A sid \in DOMAIN silkSessions : \A cid \in DOMAIN silkSessions[sid].cmds :
       (silkSessions[sid].cmds[cid].pty # 0) <=> silkSessions[sid].cmds[cid].interactive

\* The request names a running command of the session that is not interactive.
NonInteractiveRunning(sid, cid) ==
    /\ sid \in DOMAIN silkSessions
    /\ cid \in DOMAIN silkSessions[sid].cmds
    /\ ~silkSessions[sid].cmds[cid].interactive

C21_CloseRemovesOneSession ==
    [][SilkHandles("close") =>
          LET sid == lastSilk'.sid IN
          /\ ptySessions' = ptySessions
          /\ childState' = childState
          /\ \A o \in DOMAIN silkSessions \ {sid} :
                o \in DOMAIN silkSessions' /\ silkSessions'[o] = silkSessions[o]
          /\ IF sid \in DOMAIN silkSessions
             THEN /\ DOMAIN silkSessions' = DOMAIN silkSessions \ {sid}
                  /\ sink' = Append(sink, SessionClosed(sid))
             ELSE /\ silkSessions' = silkSessions
                  /\ sink' = Append(sink, SilkError(sid, 0, "session_not_found"))]_vars

\* C21 witness: a session whose interactive command had a PTY session has
\* just been closed; the other session and the PTY session are still there.
C21_Witness ==
    /\ lastSilk.type = "close"
    /\ sink[Len(sink)] = SessionClosed(lastSilk.sid)
    /\ lastSilk.sid \notin DOMAIN silkSessions
    /\ silkSessions # EmptyMap
    /\ \E n \in 1..Len(sink) : \E P \in DOMAIN ptySessions :
          sink[n].type = "interactive_required" /\ sink[n].sid = lastSilk.sid
             /\ sink[n].data = P

(***************************************************************************)
(* Claims about locks.                                                     *)
(***************************************************************************)
\* A PtyClose has removed session A and waits for A's child, which is still
\* running, to exit: child.wait() does not return in this state.  The arm's
\* guard of the map is alive until the arm's end.
PtyCloseWaits(A) == A \in ptyClosed /\ ptyLock = A /\ childState[A] = "running"

\* C22: the PTY session map lock is never held across a step that can block
\* indefinitely: while a PtyClose for session A waits for A's child to exit,
\* the lock is free, so that PtyInput, PtyResize, PtyClose, the insert of
\* AttachPty and a forwarded SilkInput for any other session B (each begins
\* by acquiring the lock) can complete.
C22_LockFreeWhileCloseWaits ==
    \A A \in PtyIds : \A B \in DOMAIN ptySessions :
       (B # A /\ PtyCloseWaits(A)) => ptyLock = 0

\* A close_session call has removed its session and awaits the timed close
\* of the peer connection.
ClosePending(t) == t.kind = "close" /\ t.step \in {"closing", "blocked"}

\* C23: close_session(S) removes S from the WebRTC session map and releases
\* the map lock before it awaits the peer connection close: while a close is
\* pending S is not in the map by the close's doing and the lock is not held
\* by the closing call, so create_session, session_exists, handle_offer and
\* the state-change handler can acquire it.
C23_CloseAwaitsWithoutLock ==
    \A t \in rtcTasks : ClosePending(t) => rtcLock # t.id

(***************************************************************************)
(* Claims about the HTTP proxy.                                            *)
(***************************************************************************)
\* The method is one of the seven, compared without regard to case.
SupportedMethod(method) ==
    \E M \in HttpMethods :
       /\ Len(M) = Len(method)
       /\ \A i \in 1..Len(M) :
             method[i] = M[i] \/ (method[i] \in DOMAIN LowerToUpper /\ LowerToUpper[method[i]] = M[i])

\* C26: the proxy decides in this order: a service name absent from the
\* registry gives 404 with body "Service not found: <name>" whatever the
\* method; otherwise a method that is not GET/POST/PUT/DELETE/PATCH/HEAD/
\* OPTIONS compared case-insensitively gives 405 with body "Unsupported
\* method: <method>" and no upstream request is made; otherwise an upstream
\* failure gives 502; every result carries the request's request_id.
C26_ProxyDecisionOrder ==
    [][proxyCount' = proxyCount + 1 =>
          LET req == lastProxy'
              res == sink'[Len(sink')] IN
          /\ Len(sink') = Len(sink) + 1
          /\ res.type = "proxy_result"
          /\ res.request_id = req.request_id
          /\ IF req.service_name \notin DOMAIN services
             THEN /\ res.status_code = 404
                  /\ res.body = <<"Service not found: ", req.service_name>>
                  /\ upstream' = upstream
             ELSE IF ~SupportedMethod(req.method)
             THEN /\ res.status_code = 405
                  /\ res.body = <<"Unsupported method: ", req.method>>
                  /\ upstream' = upstream
             ELSE /\ Len(upstream') = Len(upstream) + 1
                  /\ ~upstream'[Len(upstream')].outcome.responded => res.status_code = 502]_vars

\* C26 witness: with a registered service, a request for an absent service
\* with an unsupported method got 404, and the next, for the registered
\* service with the same method, got 405; no upstream request was made.
C26_Witness ==
    /\ "api" \in DOMAIN services
    /\ Len(sink) = 2
    /\ sink[1].status_code = 404
    /\ sink[2].status_code = 405
    /\ sink[2].body = <<"Unsupported method: ", <<"C", "O", "N", "N", "E", "C", "T">>>>
    /\ lastProxy.service_name = "api"
    /\ upstream = <<>>

(***************************************************************************)
(* Claims about secrets.                                                   *)
(***************************************************************************)
\* The characters of [A-Za-z0-9_-].
SecretAlphabet ==
    DOMAIN LowerToUpper \cup {LowerToUpper[c] : c \in DOMAIN LowerToUpper}
       \cup {"0", "1", "2", "3", "4", "5", "6", "7", "8", "9", "_", "-"}

\* C27: every secret that generate_strong_secret returns has length 48,
\* consists only of characters of [A-Za-z0-9_-], and is accepted by
\* validate_secret.
C27_GeneratedSecretValid ==
    genCheck # "none" =>
       /\ Len(genChars) = 48
       /\ \A i \in 1..Len(genChars) : genChars[i] \in SecretAlphabet
       /\ genCheck = "ok"


(***************************************************************************)
(* Claims about the ANSI converter.                                        *)
(***************************************************************************)
\* The texts of the spans, one after the other.
RECURSIVE ConcatText(_, _)
ConcatText(spans, i) ==
    IF i > Len(spans) THEN <<>> ELSE spans[i].text \o ConcatText(spans, i + 1)

\* The input from character i on without its 'ESC [ params m' sequences,
\* params being digits and semicolons.
RECURSIVE StripSgr(_, _)
StripSgr(input, i) ==
    IF i > Len(input) THEN <<>>
    ELSE IF input[i] = ESC /\ i + 1 <= Len(input) /\ input[i + 1] = "["
            /\ CodeEnd(input, i + 2) <= Len(input)
            /\ input[CodeEnd(input, i + 2)] = "m"
    THEN StripSgr(input, CodeEnd(input, i + 2) + 1)
    ELSE <<input[i]>> \o StripSgr(input, i + 1)

\* C28: for every input, the texts of the spans convert returns, put
\* together in order, are the input with every 'ESC [ params m' sequence
\* taken out and nothing else taken out.
C28_SpanTextIsStrippedInput ==
    ansiOut.done => ConcatText(ansiOut.spans, 1) = StripSgr(ansiInput, 1)

(***************************************************************************)
(* Claims about the file system requests.                                  *)
(***************************************************************************)
\* C29: in every listing the directories come before the entries that are
\* not directories, and the directories among themselves, and the others
\* among themselves, are in ascending order of their lower-cased names.
C29_ListingSorted ==
    dirResponse.type = "FsDirListing" =>
       \A i, j \in 1..Len(dirResponse.entries) :
          i < j =>
             LET a == dirResponse.entries[i]
                 b == dirResponse.entries[j]
             IN /\ a.is_dir \/ ~b.is_dir
                /\ a.is_dir = b.is_dir =>
                      StrCmp(to_lowercase(a.name), to_lowercase(b.name)) # "Greater"

\* C29 witness: a directory read as B (a file), a (a directory) and _ (a
\* file) is listed as a, _, B.
C29_Witness ==
    /\ dirRead.entries = <<DirEntry(<<"B">>, "file"), DirEntry(<<"a">>, "dir"),
                           DirEntry(<<"_">>, "file")>>
    /\ dirResponse.type = "FsDirListing"
    /\ [i \in 1..3 |-> dirResponse.entries[i].name] = <<<<"a">>, <<"_">>, <<"B">>>>

\* The walker yields an entry at place i that the walk would put into its
\* result: it is not an error, not the root, and the glob pattern, if there
\* is one, matches its name.
WouldInclude(i) ==
    /\ walker.items[i].ok
    /\ ~walker.items[i].root
    /\ walker.glob_pattern => walker.items[i].matches

\* C30: the result of every walk has at most max_entries entries, and
\* truncated is true exactly if the result has max_entries entries and
\* there is at least one further entry that would have been included.
C30_WalkCapAndTruncated ==
    walkResponse.type = "FsWalkResult" =>
       /\ Len(walkResponse.entries) <= max_entries
       /\ walkResponse.truncated <=>
             /\ Len(walkResponse.entries) = max_entries
             /\ Cardinality({i \in 1..Len(walker.items) : WouldInclude(i)}) > max_entries

(***************************************************************************)
(* Claims about the output task of a batch command.                        *)
(***************************************************************************)
\* The CommandCompleted frames on the sink for command cid.
CompletedFrames(cid) ==
    {n \in 1..Len(sink) : sink[n].type = "command_completed" /\ sink[n].cid = cid}

\* The output task of command cid is still running.
OutputTaskRuns(cid) == \E t \in silkTasks : t.kind = "output" /\ t.cid = cid

\* C31: every batch command whose CommandStarted was written gets exactly
\* one CommandCompleted once its process has exited and its output task has
\* ended, also when its session was closed while it ran: there is never more
\* than one, and when the task has ended there is one.
C31_StartedCommandCompletes ==
    \A n \in 1..Len(sink) :
       sink[n].type = "command_started" =>
          /\ Cardinality(CompletedFrames(sink[n].cid)) <= 1
          /\ ~OutputTaskRuns(sink[n].cid) => Cardinality(CompletedFrames(sink[n].cid)) = 1

\* C32: the output task of a batch command ends: whatever the child writes
\* to stdout and stderr, and in whatever order, before it exits, the task
\* reaches the end of stdout, drains stderr, reaps the child and writes
\* CommandCompleted.
C32_OutputTaskTerminates ==
    <>(/\ silkTasks = {}
       /\ \E n \in 1..Len(sink) : sink[n].type = "command_completed")

(***************************************************************************)
(* Claims about the receivers of TasksService::subscribe.                  *)
(***************************************************************************)
\* An emitted event as a receiver holds it.
AsReceived(e) == [f \in (DOMAIN e) \ {"subs"} |-> e[f]]

\* The events emitted after receiver r was subscribed that its event name
\* asks for: those of that name, or all for "*".
EventsFor(r) ==
    LET Wanted(e) == rxSubscribed[r].event \in {e.event, "*"}
        later == SubSeq(tasksEmitted, rxSubscribed[r].at + 1, Len(tasksEmitted))
        wanted == SelectSeq(later, Wanted)
    IN [i \in 1..Len(wanted) |-> AsReceived(wanted[i])]

\* C33: a receiver obtained from subscribe(E) holds exactly the events named
\* E emitted after the subscription, all of them for "*"; and subscribe with
\* a name outside the valid set fails with invalid_params and creates no
\* receiver.
C33_ReceiverGetsItsEvents ==
    /\ \A r \in DOMAIN rxSubscribed :
          /\ rxSubscribed[r].event \in TasksValidEvents
          /\ tasksRx[r] = EventsFor(r)
    /\ subscribeResult.event \notin TasksValidEvents \cup {""} =>
          /\ subscribeResult.result = "invalid_params"
          /\ subscribeResult.receiver = 0

(***************************************************************************)
(* Claims about the tasks of the dispatch loop.                            *)
(***************************************************************************)
\* C34: the data of the PtyInput frames for one PTY session reaches the
\* session's writer in the order in which the loop read the frames.
C34_InputInReadOrder ==
    \A sid \in DOMAIN ptySessions :
       \A i, j \in 1..Len(ptySessions[sid].written) :
          i < j => ptySessions[sid].written[i].seq < ptySessions[sid].written[j].seq


\* C35: a PtyOutput frame of a session is written to the sink only after
\* the PtyCreated frame of that session.
C35_CreatedBeforeOutput ==
    \A n \in 1..Len(sink) :
       sink[n].type = "pty_output" =>
          \E m \in 1..(n - 1) :
             sink[m].type = "pty_created" /\ sink[m].sid = sink[n].sid


WaitsFor(t) ==
    IF LockOp(t)[1] = "acquire" /\ lockHeld[LockOp(t)[2]] # 0
    THEN LockOp(t)[2]
    ELSE "none"

\* The task that t waits on, t itself when it waits on nobody.
Blocker(t) == IF WaitsFor(t) = "none" THEN t ELSE lockHeld[WaitsFor(t)]

\* The task reached from t by following the waits n times.
RECURSIVE BlockerChain(_, _)
BlockerChain(t, n) == IF n = 0 THEN t ELSE BlockerChain(Blocker(t), n - 1)

\* The place of a mutex in the order the tasks take them.
LockRank(m) == CASE m = "silk" -> 1 [] m = "pty" -> 2 [] m = "sink" -> 3

\* C37: a task that waits for a mutex while it holds another holds one that
\* comes earlier in one fixed order (Silk map, PTY map, sink), and no chain
\* of tasks waiting on each other leads back to its start: every chain of
\* waits ends at a task that waits for nothing.
C37_NoLockCycle ==
    \A t \in DOMAIN lockTasks :
       /\ WaitsFor(t) # "none" =>
             \A m \in Mutexes : lockHeld[m] = t => LockRank(m) < LockRank(WaitsFor(t))
       /\ WaitsFor(BlockerChain(t, MaxLockTasks)) = "none"

\* C37: a task holds the Silk session map and waits for the sink while
\* another task holds the sink.
C37_Witness ==
    \E t \in DOMAIN lockTasks :
       /\ lockHeld["silk"] = t
       /\ WaitsFor(t) = "sink"
       /\ lockHeld["sink"] \in DOMAIN lockTasks \ {t}


(***************************************************************************)
(* Claims about the frames written during shutdown.                        *)
(***************************************************************************)
\* C38: once the signal handler has written the Deregister frame, no task
\* writes a further frame: the Deregister frame stays the last frame on the
\* sink.
C38_DeregisterIsLast ==
    \A n \in 1..Len(sink) : sink[n].type = "deregister" => n = Len(sink)


(***************************************************************************)
(* Claims about the router's subscription map.                             *)
(***************************************************************************)
\* C39: every entry of the subscription map names a service that is
\* registered; so after unregister(id) no entry names id, and
\* subscription_count counts subscriptions of registered services only.
C39_SubscriptionsOfRegistered ==
    \A id \in DOMAIN adiSubs : adiSubs[id].service \in DOMAIN adiServices


(***************************************************************************)
(* Claims about running_commands.                                          *)
(***************************************************************************)
\* The commands of Silk session sid that were started and have not
\* finished: those whose task is still at work (the output task of a batch
\* command, the PTY creation of an interactive one) and the interactive
\* commands whose PTY session was announced and has not been closed.
UnfinishedCommands(sid) ==
    {t.cid : t \in {u \in silkTasks : u.sid = sid}}
       \cup {sink[n].cid : n \in {k \in 1..Len(sink) :
                                    /\ sink[k].type = "interactive_required"
                                    /\ sink[k].sid = sid
                                    /\ sink[k].data \in DOMAIN ptySessions}}

\* C40: running_commands of every Silk session holds exactly the commands
\* that were started and have not finished.
C40_RunningCommandsExact ==
    \A sid \in DOMAIN silkSessions :
       DOMAIN silkSessions[sid].cmds = UnfinishedCommands(sid)

=============================================================================
